---- MODULE Spec2Model ----
(***************************************************************************)
(* Model of the claude-code-runner AG-UI adapter: the HTTP event generator *)
(* of main.py (run_agent.event_generator), ClaudeCodeAdapter.process_run   *)
(* and ClaudeCodeAdapter._run_claude_agent_sdk of adapter.py, together     *)
(* with the handlers that write adapter state (interrupt, workflow change, *)
(* repository add / remove).                                               *)
(*                                                                         *)
(* `events` is the stream of one run as the HTTP consumer receives it.     *)
(* Each action is one stretch of the generators between two suspension     *)
(* points (an await on the agent client or a group of yields).             *)
(***************************************************************************)
EXTENDS Integers, Sequences, FiniteSets, TLC

\* ------------------------------------------------------------------ bounds
MaxRuns      == 2   \* runs of one session
MaxMsgs      == 1   \* messages of one run request
MaxAgentMsgs == 2   \* messages the agent yields in one run
MaxBlocks    == 1   \* content blocks of one structured message
MaxTurns     == 1   \* largest num_turns a result message reports
MaxEchoMsgs  == 3   \* messages of the request of EchoSpec
MaxOverlap   == 2   \* runs served at the same time in OverlapSpec
MaxInputMsgs == 2   \* messages of a request given to _extract_user_message
MaxRepos     == 3   \* entries of REPOS_JSON
MaxPieces    == 3   \* pieces the argument of map_to_vertex_model is put together from

\* ------------------------------------------------------------------ values
\* Identifiers are triples <<kind, run, n>>; uuid4() is the n-th fresh
\* identifier drawn in run `run`.
None     == <<"none", 0, 0>>
ToolIds  == { <<"tool", 0, 1>> }
NoTurns  == -1                      \* ResultMessage.num_turns is None
NoClient == 0                       \* _active_client / client is None

\* A protocol event: its kind, the message / tool-call / step id it carries,
\* its payload, and for a StateDelta the num_turns of the result payload.
Event(t, i, x) == [type |-> t, id |-> i, info |-> x, num_turns |-> NoTurns]

ResultEvent(n) == [type |-> "STATE_DELTA", id |-> None, info |-> "lastResult", num_turns |-> n]

Contents == {"", "hello"}

\* A prompt that begins with a phase command.
PhasePrompt == "/speckit.plan"

\* The messages of a run request: role, metadata.hidden, content.  A hidden
\* message is what auto_execute_initial_prompt and the workflow / repository
\* handlers post: an automatic prompt, here empty or a phase command.
Message  == [role : {"user"}, hidden : {FALSE}, content : Contents]
              \cup [role : {"user"}, hidden : {TRUE}, content : {"", PhasePrompt}]
              \cup [role : {"assistant"}, hidden : {FALSE}, content : {"hello"}]

RECURSIVE SeqsUpTo(_, _)
SeqsUpTo(S, n) ==
    IF n = 0 THEN { <<>> }
    ELSE LET shorter == SeqsUpTo(S, n - 1)
         IN  shorter \cup { Append(s, x) : s \in { t \in shorter : Len(t) = n - 1 }, x \in S }

Requests == SeqsUpTo(Message, MaxMsgs)

\* The messages _extract_user_message is applied to: role and content, the
\* content a string, a list of up to two blocks, or None.
InputContents ==
    {[type |-> "str", text |-> t, blocks |-> <<>>] : t \in {"", "a", "b"}}
        \cup {[type |-> "list", text |-> "", blocks |-> bs] :
                  bs \in {<<>>,
                          <<[has_text |-> FALSE, text |-> ""]>>,
                          <<[has_text |-> TRUE, text |-> "a"]>>,
                          <<[has_text |-> FALSE, text |-> ""], [has_text |-> TRUE, text |-> "b"]>>,
                          <<[has_text |-> TRUE, text |-> "b"], [has_text |-> TRUE, text |-> "a"]>>}}
        \cup {[type |-> "NoneType", text |-> "", blocks |-> <<>>]}

InputMessage == [role : {"user", "assistant"}, content : InputContents]

InputMessages == SeqsUpTo(InputMessage, MaxInputMsgs)

\* Content blocks of a structured (assistant / user) message.
Block ==
    [kind : {"text"}, id : {None}, input : {FALSE}, is_error : {FALSE}]
      \cup [kind : {"tool_use"}, id : ToolIds \cup {None}, input : BOOLEAN, is_error : {FALSE}]
      \cup [kind : {"tool_result"}, id : ToolIds \cup {None}, input : {FALSE}, is_error : BOOLEAN]
      \cup [kind : {"thinking"}, id : {None}, input : {FALSE}, is_error : {FALSE}]

BlockSeqs == SeqsUpTo(Block, MaxBlocks)

\* OverlapSpec: the state of one of the runs served at the same time: its
\* position, whether its options ask to continue the conversation, the
\* clients it has created, whether interrupt() reached its client, whether
\* it did so after the run had begun its cleanup, whether the run is the
\* next one accepted after a reset request, and whether it ran
\* adapter.initialize().
OverlapRun(p, c, n, s, l) ==
    [pc |-> p, cont |-> c, clients |-> n, signalled |-> s, late |-> l,
     after_reset |-> FALSE, initialized |-> FALSE]

OverlapIds == 1 .. MaxOverlap

NoRuns == [r \in OverlapIds |-> OverlapRun("idle", FALSE, 0, FALSE, FALSE)]

\* ------------------------------------------------------- Python values
\* A str is the sequence of its characters; None and an int are values of
\* their own types.
PyStr(s) == [type |-> "str", value |-> s]

PyNone == [type |-> "NoneType", value |-> <<>>]

PyInt(digits) == [type |-> "int", value |-> digits]

\* The keys and the versions of VERTEX_MODEL_MAP, and other pieces of model
\* names.
claude_opus_4_6 == << "c", "l", "a", "u", "d", "e", "-", "o", "p", "u", "s", "-", "4", "-", "6" >>

claude_opus_4_5 == << "c", "l", "a", "u", "d", "e", "-", "o", "p", "u", "s", "-", "4", "-", "5" >>

claude_sonnet_4_5 == << "c", "l", "a", "u", "d", "e", "-", "s", "o", "n", "n", "e", "t", "-", "4", "-", "5" >>

claude_haiku_4_5 == << "c", "l", "a", "u", "d", "e", "-", "h", "a", "i", "k", "u", "-", "4", "-", "5" >>

CLAUDE_OPUS_4_5 == << "C", "L", "A", "U", "D", "E", "-", "O", "P", "U", "S", "-", "4", "-", "5" >>

claude_opus == << "c", "l", "a", "u", "d", "e", "-", "o", "p", "u", "s" >>

\* What the requests of a model are put together from.
ModelPieces ==
    { claude_opus_4_6, claude_opus_4_5, claude_sonnet_4_5, claude_haiku_4_5,
      CLAUDE_OPUS_4_5, claude_opus, << "-", "4", "-", "5" >>, << "-", "4", "-", "1" >>, << "@" >>,
      << " " >>, << "d", "e", "f", "a", "u", "l", "t" >>, << "2", "0", "2", "5", "1", "1", "0", "1" >>, << "2", "0", "2", "5", "0", "9", "2", "9" >>, << "2", "0", "2", "5", "1", "0", "0", "1" >> }

\* The strings of up to n pieces.
RECURSIVE PieceStrings(_)
PieceStrings(n) ==
    IF n = 0 THEN { <<>> }
    ELSE LET shorter == PieceStrings(n - 1)
         IN  shorter \cup { a \o b : a \in shorter, b \in ModelPieces }

ModelStrings == PieceStrings(MaxPieces)

\* The values map_to_vertex_model is called with.
ModelInputs ==
    { PyStr(s) : s \in ModelStrings } \cup { PyNone, PyInt(<< "1", "2", "3" >>) }

\* dict.get(key, default) on a dict given as a set of << key, value >> pairs.
DictGet(d, key, default) ==
    IF \E e \in d : e[1] = key
    THEN (CHOOSE e \in d : e[1] = key)[2]
    ELSE default

\* The model_map of ClaudeCodeAdapter._map_to_vertex_model.
model_map ==
    { << PyStr(claude_opus_4_5), PyStr(claude_opus_4_5 \o << "@" >> \o << "2", "0", "2", "5", "1", "1", "0", "1" >>) >>,
      << PyStr(<< "c", "l", "a", "u", "d", "e", "-", "o", "p", "u", "s", "-", "4", "-", "1" >>),
         PyStr(<< "c", "l", "a", "u", "d", "e", "-", "o", "p", "u", "s", "-", "4", "-", "1" >>
               \o << "@" >> \o << "2", "0", "2", "5", "0", "8", "0", "5" >>) >>,
      << PyStr(claude_sonnet_4_5), PyStr(claude_sonnet_4_5 \o << "@" >> \o << "2", "0", "2", "5", "0", "9", "2", "9" >>) >>,
      << PyStr(claude_haiku_4_5), PyStr(claude_haiku_4_5 \o << "@" >> \o << "2", "0", "2", "5", "1", "0", "0", "1" >>) >> }

\* ClaudeCodeAdapter._map_to_vertex_model
_map_to_vertex_model(model) == DictGet(model_map, model, model)

\* auth.VERTEX_MODEL_MAP with the entries of the adapter's model_map.
VERTEX_MODEL_MAP_Adapter == model_map

\* auth.VERTEX_MODEL_MAP
VERTEX_MODEL_MAP ==
    { << PyStr(claude_opus_4_6), PyStr(claude_opus_4_6 \o << "@" >> \o << "d", "e", "f", "a", "u", "l", "t" >>) >>,
      << PyStr(claude_opus_4_5), PyStr(claude_opus_4_5 \o << "@" >> \o << "2", "0", "2", "5", "1", "1", "0", "1" >>) >>,
      << PyStr(claude_sonnet_4_5), PyStr(claude_sonnet_4_5 \o << "@" >> \o << "2", "0", "2", "5", "0", "9", "2", "9" >>) >>,
      << PyStr(claude_haiku_4_5), PyStr(claude_haiku_4_5 \o << "@" >> \o << "2", "0", "2", "5", "1", "0", "0", "1" >>) >> }

\* auth.map_to_vertex_model
map_to_vertex_model(model) == DictGet(VERTEX_MODEL_MAP, model, model)

\* ------------------------------------------------- main.py: RunnerInput
PyList(items) == [type |-> "list", value |-> items]

PyDict(items) == [type |-> "dict", value |-> items]

\* bool(v): None, the empty str, the empty list and the empty dict are false.
Truthy(v) == v.type # "NoneType" /\ v.value # <<>>

\* a or b
Or(a, b) == IF Truthy(a) THEN a ELSE b

\* Optional[str] fields in camelCase and in snake_case.
CamelIds == { PyNone, PyStr(<<>>), PyStr(<< "a" >>) }

SnakeIds == { PyNone, PyStr(<<>>), PyStr(<< "b" >>) }

\* The requests POST / accepts (RunnerInput after validation).
RunnerInputs ==
    [ threadId : CamelIds, thread_id : SnakeIds,
      runId : CamelIds, run_id : SnakeIds,
      parentRunId : CamelIds, parent_run_id : SnakeIds,
      messages : { PyList(<<>>), PyList(<< "m1", "m2" >>), PyList(<< "m2", "m1" >>) },
      state : { PyNone, PyDict(<<>>), PyDict(<< "k" >>) },
      tools : { PyNone, PyList(<<>>), PyList(<< "t" >>) },
      context : { PyNone, PyList(<<>>), PyList(<< "c" >>), PyDict(<<>>), PyDict(<< "k" >>) },
      forwardedProps : { PyNone, PyDict(<< "k" >>) } ]

\* str(uuid.uuid4()): some fresh non-empty string.
GeneratedRunIds == { PyStr(<< "uuid-1" >>), PyStr(<< "uuid-2" >>) }

\* No conversion has been made, and RunAgentInput(...) rejected its
\* arguments.
NotConverted == [type |-> "NotConverted", value |-> <<>>]

ValidationError == [type |-> "ValidationError", value |-> <<>>]

\* RunnerInput.to_run_agent_input that prefers the snake_case spelling.
to_run_agent_inputSnakeFirst(self, generated) ==
    LET thread_id      == Or(self.thread_id, self.threadId)
        run_id         == Or(self.run_id, self.runId)
        parent_run_id  == Or(self.parent_run_id, self.parentRunId)
        context_list   == IF self.context.type = "list" THEN self.context ELSE PyList(<<>>)
    IN  [ thread_id |-> thread_id,
          run_id |-> IF ~Truthy(run_id) THEN generated ELSE run_id,
          parent_run_id |-> parent_run_id,
          messages |-> self.messages,
          state |-> Or(self.state, PyDict(<<>>)),
          tools |-> Or(self.tools, PyList(<<>>)),
          context |-> context_list,
          forwarded_props |-> Or(self.forwardedProps, PyDict(<<>>)) ]

\* RunnerInput.to_run_agent_input; `generated` is the value uuid4() returns
\* when it is called.
to_run_agent_input(self, generated) ==
    LET thread_id      == Or(self.threadId, self.thread_id)
        run_id         == Or(self.runId, self.run_id)
        parent_run_id  == Or(self.parentRunId, self.parent_run_id)
        context_list   == IF self.context.type = "list" THEN self.context ELSE PyList(<<>>)
    IN  [ thread_id |-> thread_id,
          run_id |-> IF ~Truthy(run_id) THEN generated ELSE run_id,
          parent_run_id |-> parent_run_id,
          messages |-> self.messages,
          state |-> Or(self.state, PyDict(<<>>)),
          tools |-> Or(self.tools, PyList(<<>>)),
          context |-> context_list,
          forwarded_props |-> Or(self.forwardedProps, PyDict(<<>>)) ]

\* _extract_user_message has not been called.
NotExtracted == [done |-> FALSE, text |-> ""]

\* No repository configuration is being resolved, and nothing is resolved.
NoPathsEnv ==
    [workflow_url |-> FALSE, workflow_exists |-> FALSE, repos |-> <<>>,
     main_name |-> "", main_index |-> [kind |-> "unset", n |-> 0]]

NotResolved == [done |-> FALSE, cwd |-> <<>>, add_dirs |-> <<>>]

VARIABLES
    adapter_initialized,   \* main.py  _adapter_initialized
    first_run,             \* adapter._first_run
    turn_count,            \* adapter._turn_count
    current_message_id,    \* adapter._current_message_id
    active_client,         \* adapter._active_client
    last_exit_code,        \* adapter.last_exit_code
    pc,                    \* position of the run in flight
    run,                   \* number of runs started so far
    request,               \* input_data.messages of the run in flight
    events,                \* events of the run in flight, as streamed
    echo_i,                \* index of the next message to echo
    continue_conversation, \* options.continue_conversation
    connects,              \* connect attempts of the run: client, flag, outcome
    client,                \* local `client` of _run_claude_agent_sdk
    disconnects,           \* clients on which disconnect was called, in order
    blocks,                \* blocks of the structured message still to process
    has_content,           \* the structured message has a non-empty content
    received,              \* agent messages received in the run
    uuids,                 \* uuid4() values drawn in the run
    failed,                \* the call of the run that raised first, "" when none did
    interrupted,           \* interrupt() was called on the registered client
    is_resume,             \* the IS_RESUME environment variable is "true"
    interrupt_raised,      \* an interrupt() call raised to its caller
    obs_down,              \* the observability sink fails on every call
    runs,                  \* OverlapSpec: the runs served at the same time
    llm_model,             \* MapSpec: the argument of map_to_vertex_model
    vertex_models,         \* MapSpec: the results of applying it once, twice
    runner_input,          \* InputSpec: the RunnerInput of a request
    run_agent_input,       \* InputSpec: the result of to_run_agent_input
    vertex_run,            \* MapSpec: use_vertex of the run being configured
    configured_model,      \* MapSpec: the model _run_claude_agent_sdk configures
    input_messages,        \* ExtractSpec: input_data.messages
    user_message,          \* ExtractSpec: the result of _extract_user_message
    paths_env,             \* PathSpec: REPOS_JSON and the environment of the resolver
    resolved_paths         \* PathSpec: the working directory and the additional ones

vars == << adapter_initialized, first_run, turn_count, current_message_id,
           active_client, last_exit_code, pc, run, request, events, echo_i,
           continue_conversation, connects, client, disconnects, blocks,
           has_content, received, uuids, failed, interrupted, is_resume,
           interrupt_raised, obs_down, runs, llm_model, vertex_models,
           runner_input, run_agent_input, vertex_run, configured_model, input_messages,
           user_message, paths_env, resolved_paths >>

mapVars == << llm_model, vertex_run, vertex_models, configured_model >>

inputVars == << runner_input, run_agent_input >>

extractVars == << input_messages, user_message >>

pathVars == << paths_env, resolved_paths >>

callVars == << mapVars, inputVars, extractVars, pathVars >>

sessionVars == << is_resume, interrupt_raised, obs_down, runs, callVars >>

adapterVars == << adapter_initialized, first_run, turn_count,
                  current_message_id, active_client, last_exit_code >>

\* No call of map_to_vertex_model or to_run_agent_input is followed.
NoMapCall ==
    /\ llm_model = PyNone
    /\ vertex_run = FALSE
    /\ vertex_models = <<>>
    /\ configured_model = NotConverted

NoInputCall ==
    /\ runner_input = NotConverted
    /\ run_agent_input = NotConverted

NoExtractCall ==
    /\ input_messages = <<>>
    /\ user_message = NotExtracted

NoPathsCall ==
    /\ paths_env = NoPathsEnv
    /\ resolved_paths = NotResolved

NoCalls == NoMapCall /\ NoInputCall /\ NoExtractCall /\ NoPathsCall

\* ClaudeCodeAdapter.__init__ and the module state of main.py.
Init ==
    /\ adapter_initialized = FALSE
    /\ first_run = TRUE
    /\ turn_count = 0
    /\ current_message_id = None
    /\ active_client = NoClient
    /\ last_exit_code = 1
    /\ pc = "idle"
    /\ run = 0
    /\ request = <<>>
    /\ events = <<>>
    /\ echo_i = 1
    /\ continue_conversation = FALSE
    /\ connects = <<>>
    /\ client = NoClient
    /\ disconnects = <<>>
    /\ blocks = <<>>
    /\ has_content = FALSE
    /\ received = 0
    /\ uuids = 0
    /\ failed = ""
    /\ interrupted = FALSE
    /\ is_resume \in BOOLEAN
    /\ interrupt_raised = FALSE
    /\ obs_down = FALSE
    /\ runs = NoRuns
    /\ NoCalls

Emit(es) == events' = events \o es

\* str(uuid.uuid4()): the next fresh identifier of the run.
Uuid4 == <<"uuid", run, uuids + 1>>


\* The content of a message as _extract_user_message sees it: a str, a list
\* of content blocks, or anything else (None).  A block exposes text or does
\* not (an image or a binary block).
StrContent(text) == [type |-> "str", text |-> text, blocks |-> <<>>]

ListContent(bs) == [type |-> "list", text |-> "", blocks |-> bs]

NoneContent == [type |-> "NoneType", text |-> "", blocks |-> <<>>]

TextBlock(text) == [has_text |-> TRUE, text |-> text]

BinaryBlock == [has_text |-> FALSE, text |-> ""]

\* The messages of a run request, whose content is a plain string, as
\* _extract_user_message sees them.
PlainMessages(msgs) ==
    [ k \in DOMAIN msgs |-> [role |-> msgs[k].role, content |-> StrContent(msgs[k].content)] ]

\* The loop over the blocks of a list content: the position of the first
\* block that exposes text, 0 when the loop ends without a return.
RECURSIVE FirstTextBlock(_, _)
FirstTextBlock(bs, i) ==
    IF i > Len(bs) THEN 0
    ELSE IF bs[i].has_text THEN i
    ELSE FirstTextBlock(bs, i + 1)

\* ClaudeCodeAdapter._extract_user_message, the scan over reversed(messages):
\* a message with role "user" returns its str content, or the text of the
\* first block of its list content that exposes text; with a list content
\* none of whose blocks exposes text, or a content that is neither, nothing
\* is returned and the scan goes on to the message before it.  "" when the
\* scan ends.
RECURSIVE ExtractFrom(_, _)
ExtractFrom(msgs, i) ==
    IF i = 0 THEN ""
    ELSE LET content == msgs[i].content
         IN  IF msgs[i].role = "user" /\ content.type = "str" THEN content.text
             ELSE IF /\ msgs[i].role = "user"
                     /\ content.type = "list"
                     /\ FirstTextBlock(content.blocks, 1) # 0
                  THEN content.blocks[FirstTextBlock(content.blocks, 1)].text
             ELSE ExtractFrom(msgs, i - 1)

_extract_user_message(msgs) == ExtractFrom(msgs, Len(msgs))

\* The table of _validate_prerequisites: phase command, the artifact it
\* requires, the error raised when the artifact is not found.
prerequisites ==
    { [cmd |-> "/speckit.plan", required_file |-> "spec.md",
       error_msg |-> "Specification file (spec.md) not found. Please run /speckit.specify first."],
      [cmd |-> "/speckit.tasks", required_file |-> "plan.md",
       error_msg |-> "Planning file (plan.md) not found. Please run /speckit.plan first."],
      [cmd |-> "/speckit.implement", required_file |-> "tasks.md",
       error_msg |-> "Tasks file (tasks.md) not found. Please run /speckit.tasks first."] }

\* The artifacts found in the workspace: those of a session in which no
\* phase has produced its artifact yet.
WorkspaceFiles == {}

\* prompt.strip().lower().startswith(cmd), over the prompts of the model.
StartsWith(prompt, cmd) == prompt = cmd

\* ClaudeCodeAdapter._validate_prerequisites applied to `prompt`: the message
\* of the PrerequisiteError it raises, "" when it returns.
_validate_prerequisites(prompt) ==
    LET missing == { p \in prerequisites : /\ StartsWith(prompt, p.cmd)
                                           /\ p.required_file \notin WorkspaceFiles }
    IN  IF prompt = "" \/ missing = {} THEN ""
        ELSE (CHOOSE p \in missing : TRUE).error_msg

\* The values of the INITIAL_PROMPT environment variable.
InitialPrompts == {"", PhasePrompt}

\* The observability sink with its backend down, were a failing call to
\* raise to its caller.
obs_raisesWhenDown(call) == obs_down

\* The observability sink (ObservabilityManager): whether `call` raises to
\* the adapter.  A call that fails logs the failure and returns.
obs_raises(call) == FALSE

\* `call` raised outside the inner try: the except clause of
\* _run_claude_agent_sdk re-raises, the except clause of process_run emits
\* one RunError and records status code 1.
RunErrorExit(call) ==
    /\ failed' = call
    /\ Emit(<< Event("RUN_ERROR", None, "error") >>)
    /\ last_exit_code' = 1
    /\ pc' = "done"

\* ------------------------------------------------- main.py: run_agent
\* POST / : a new run is accepted (runs are served one after the other).
StartRun ==
    /\ pc \in {"idle", "done"}
    /\ run < MaxRuns
    /\ \E req \in Requests : request' = req
    /\ run' = run + 1
    /\ events' = <<>>
    /\ echo_i' = 1
    /\ continue_conversation' = FALSE
    /\ connects' = <<>>
    /\ client' = NoClient
    /\ disconnects' = <<>>
    /\ blocks' = <<>>
    /\ has_content' = FALSE
    /\ received' = 0
    /\ uuids' = 0
    /\ failed' = ""
    /\ interrupted' = FALSE
    /\ pc' = "generator"
    /\ UNCHANGED adapterVars
    /\ UNCHANGED sessionVars

\* event_generator up to process_run: adapter.initialize() when the adapter
\* is not initialized.  initialize sets up the Google credentials (which can
\* raise), then validates the prerequisites of INITIAL_PROMPT and raises
\* PrerequisiteError (status code 2) when an artifact is missing;
\* event_generator turns either exception into a RunError event.
InitializeAdapter ==
    /\ pc = "generator"
    /\ IF adapter_initialized
       THEN /\ pc' = "process_run"
            /\ UNCHANGED << adapter_initialized, last_exit_code, events >>
       ELSE \E credentials_ok \in BOOLEAN, initial_prompt \in InitialPrompts :
              LET error_msg == _validate_prerequisites(initial_prompt)
              IN  CASE ~credentials_ok ->
                         /\ Emit(<< Event("RUN_ERROR", None, "error") >>)
                         /\ pc' = "done"
                         /\ UNCHANGED << adapter_initialized, last_exit_code >>
                    [] credentials_ok /\ error_msg # "" ->
                         /\ last_exit_code' = 2
                         /\ Emit(<< Event("RUN_ERROR", None, error_msg) >>)
                         /\ pc' = "done"
                         /\ UNCHANGED adapter_initialized
                    [] credentials_ok /\ error_msg = "" ->
                         /\ adapter_initialized' = TRUE
                         /\ pc' = "process_run"
                         /\ UNCHANGED << last_exit_code, events >>
    /\ UNCHANGED << first_run, turn_count, current_message_id, active_client,
                    run, request, echo_i, continue_conversation, connects,
                    client, disconnects, blocks, has_content, received,
                    uuids, failed, interrupted >>
    /\ UNCHANGED sessionVars

\* ------------------------------------------------- adapter.py: process_run
\* process_run up to its first yield: refresh_google_credentials() runs
\* before the try block, so its failure reaches event_generator; otherwise
\* RunStarted is emitted.
ProcessRunBegin ==
    /\ pc = "process_run"
    /\ \E ok \in BOOLEAN :
         IF ok
         THEN /\ Emit(<< Event("RUN_STARTED", None, "") >>)
              /\ pc' = "echo"
         ELSE /\ Emit(<< Event("RUN_ERROR", None, "error") >>)
              /\ pc' = "done"
    /\ UNCHANGED << adapterVars, run, request, echo_i, continue_conversation,
                    connects, client, disconnects, blocks, has_content,
                    received, uuids, failed, interrupted >>
    /\ UNCHANGED sessionVars

\* EchoEvents with the metadata event after the start event.
EchoEventsMetadataLate(msg, i) ==
    LET msg_id == <<"msg", 0, i>>
    IN  IF msg.role # "user" THEN <<>>
        ELSE << Event("TEXT_MESSAGE_START", msg_id, "user") >>
             \o (IF msg.hidden THEN << Event("RAW", msg_id, "message_metadata") >> ELSE <<>>)
             \o (IF msg.content # "" THEN << Event("TEXT_MESSAGE_CONTENT", msg_id, msg.content) >> ELSE <<>>)
             \o << Event("TEXT_MESSAGE_END", msg_id, "") >>

\* The events echoing one inbound message.
EchoEvents(msg, i) ==
    LET msg_id == <<"msg", 0, i>>
    IN  IF msg.role # "user" THEN <<>>
        ELSE (IF msg.hidden THEN << Event("RAW", msg_id, "message_metadata") >> ELSE <<>>)
             \o << Event("TEXT_MESSAGE_START", msg_id, "user") >>
             \o (IF msg.content # "" THEN << Event("TEXT_MESSAGE_CONTENT", msg_id, msg.content) >> ELSE <<>>)
             \o << Event("TEXT_MESSAGE_END", msg_id, "") >>

\* The echo loop of process_run, one inbound message per step.
EchoMessage ==
    /\ pc = "echo"
    /\ echo_i <= Len(request)
    /\ Emit(EchoEvents(request[echo_i], echo_i))
    /\ echo_i' = echo_i + 1
    /\ UNCHANGED << adapterVars, pc, run, request, continue_conversation,
                    connects, client, disconnects, blocks, has_content,
                    received, uuids, failed, interrupted >>
    /\ UNCHANGED sessionVars

\* ExtractPrompt without the `return` that follows RunFinished.
ExtractPromptNoReturn ==
    /\ pc = "echo"
    /\ echo_i > Len(request)
    /\ IF _extract_user_message(PlainMessages(request)) = ""
       THEN Emit(<< Event("RAW", None, "No user message provided"),
                    Event("RUN_FINISHED", None, "") >>)
       ELSE UNCHANGED events
    /\ pc' = "sdk"
    /\ UNCHANGED << adapterVars, run, request, echo_i, continue_conversation,
                    connects, client, disconnects, blocks, has_content,
                    received, uuids, failed, interrupted >>
    /\ UNCHANGED sessionVars

\* After the echo loop: extract the prompt; without one the run finishes at
\* once (return before last_exit_code is written).
ExtractPrompt ==
    /\ pc = "echo"
    /\ echo_i > Len(request)
    /\ IF _extract_user_message(PlainMessages(request)) = ""
       THEN /\ Emit(<< Event("RAW", None, "No user message provided"),
                       Event("RUN_FINISHED", None, "") >>)
            /\ pc' = "done"
       ELSE /\ pc' = "sdk"
            /\ UNCHANGED events
    /\ UNCHANGED << adapterVars, run, request, echo_i, continue_conversation,
                    connects, client, disconnects, blocks, has_content,
                    received, uuids, failed, interrupted >>
    /\ UNCHANGED sessionVars

\* PrepareOptions, were the client created ahead of the authentication
\* check.
PrepareOptionsClientFirst ==
    /\ pc = "sdk"
    /\ client' = 1
    /\ \E api_key \in BOOLEAN, use_vertex \in BOOLEAN, ok \in BOOLEAN :
         LET is_continuation == is_resume IN
         IF ~api_key /\ ~use_vertex
         THEN /\ RunErrorExit("auth")
              /\ UNCHANGED continue_conversation
         ELSE IF ~ok
         THEN /\ RunErrorExit("prepare")
              /\ UNCHANGED continue_conversation
         ELSE /\ IF ~first_run \/ is_continuation
                 THEN /\ continue_conversation' = TRUE
                      /\ Emit(<< Event("RAW", None, "Continuing conversation from previous state") >>)
                 ELSE /\ UNCHANGED << continue_conversation, events >>
              /\ pc' = "connect"
              /\ UNCHANGED << last_exit_code, failed >>
    /\ UNCHANGED << adapter_initialized, first_run, turn_count,
                    current_message_id, active_client, run, request, echo_i,
                    connects, disconnects, blocks, has_content,
                    received, uuids, interrupted >>
    /\ UNCHANGED sessionVars

\* PrepareOptions with `and` for the `or` of the continuation test.
PrepareOptionsBothRequired ==
    /\ pc = "sdk"
    /\ \E api_key \in BOOLEAN, use_vertex \in BOOLEAN, ok \in BOOLEAN :
         LET is_continuation == is_resume IN
         IF ~api_key /\ ~use_vertex
         THEN /\ RunErrorExit("auth")
              /\ UNCHANGED continue_conversation
         ELSE IF ~ok
         THEN /\ RunErrorExit("prepare")
              /\ UNCHANGED continue_conversation
         ELSE /\ IF ~first_run /\ is_continuation
                 THEN /\ continue_conversation' = TRUE
                      /\ Emit(<< Event("RAW", None, "Continuing conversation from previous state") >>)
                 ELSE /\ UNCHANGED << continue_conversation, events >>
              /\ pc' = "connect"
              /\ UNCHANGED << last_exit_code, failed >>
    /\ UNCHANGED << adapter_initialized, first_run, turn_count,
                    current_message_id, active_client, run, request, echo_i,
                    connects, client, disconnects, blocks, has_content,
                    received, uuids, interrupted >>
    /\ UNCHANGED sessionVars

\* ------------------------------------- adapter.py: _run_claude_agent_sdk
\* From the entry of _run_claude_agent_sdk to the creation of the client:
\* authentication check, Vertex credentials, observability, paths, options.
\* Without an API key and without the Vertex mode a RuntimeError is raised
\* at once; any other failure here is raised before a client exists too.  continue_conversation is requested when this is not the first
\* run or IS_RESUME is set.
PrepareOptions ==
    /\ pc = "sdk"
    /\ \E api_key \in BOOLEAN, use_vertex \in BOOLEAN, ok \in BOOLEAN :
         LET is_continuation == is_resume IN
         IF ~api_key /\ ~use_vertex
         THEN /\ RunErrorExit("auth")
              /\ UNCHANGED continue_conversation
         ELSE IF obs_raises("initialize")
         THEN /\ RunErrorExit("obs.initialize")
              /\ UNCHANGED continue_conversation
         ELSE IF ~ok
         THEN /\ RunErrorExit("prepare")
              /\ UNCHANGED continue_conversation
         ELSE /\ IF ~first_run \/ is_continuation
                 THEN /\ continue_conversation' = TRUE
                      /\ Emit(<< Event("RAW", None, "Continuing conversation from previous state") >>)
                 ELSE /\ UNCHANGED << continue_conversation, events >>
              /\ pc' = "connect"
              /\ UNCHANGED << last_exit_code, failed >>
    /\ UNCHANGED << adapter_initialized, first_run, turn_count,
                    current_message_id, active_client, run, request, echo_i,
                    connects, client, disconnects, blocks, has_content,
                    received, uuids, interrupted >>
    /\ UNCHANGED sessionVars

\* What client.connect() can report.  The subprocess reports a missing
\* conversation only when it was asked to continue one.
ConnectOutcomes(cont) ==
    {"ok", "session", "error"} \cup (IF cont THEN {"no conversation found"} ELSE {})

\* The test of the except clause around the first connect.
IsResumeError(outcome) == outcome \in {"no conversation found", "session"}

\* create_sdk_client(options) and client.connect().
Connect ==
    /\ pc = "connect"
    /\ \E outcome \in ConnectOutcomes(continue_conversation) :
         /\ connects' = Append(connects, [client |-> 1, cont |-> continue_conversation,
                                          outcome |-> outcome])
         /\ CASE outcome = "ok" ->
                   /\ client' = 1
                   /\ pc' = "register"
                   /\ UNCHANGED << events, last_exit_code, failed >>
              [] IsResumeError(outcome) ->
                   /\ client' = 1
                   /\ Emit(<< Event("RAW", None, "Could not continue conversation, starting fresh...") >>)
                   /\ pc' = "reconnect"
                   /\ UNCHANGED << last_exit_code, failed >>
              [] OTHER ->
                   /\ client' = 1
                   /\ RunErrorExit("connect")
    /\ UNCHANGED << adapter_initialized, first_run, turn_count,
                    current_message_id, active_client, run, request, echo_i,
                    continue_conversation, disconnects, blocks, has_content,
                    received, uuids, interrupted >>
    /\ UNCHANGED sessionVars

\* ConnectFallback that creates the second client without disable_continue.
ConnectFallbackKeepsContinue ==
    /\ pc = "reconnect"
    /\ UNCHANGED continue_conversation
    /\ \E outcome \in ConnectOutcomes(continue_conversation) :
         /\ connects' = Append(connects, [client |-> 2, cont |-> continue_conversation,
                                          outcome |-> outcome])
         /\ client' = 2
         /\ IF outcome = "ok"
            THEN /\ pc' = "register"
                 /\ UNCHANGED << events, last_exit_code, failed >>
            ELSE RunErrorExit("connect")
    /\ UNCHANGED << adapter_initialized, first_run, turn_count,
                    current_message_id, active_client, run, request, echo_i,
                    disconnects, blocks, has_content, received, uuids,
                    interrupted >>
    /\ UNCHANGED sessionVars

\* create_sdk_client(options, disable_continue=True) and the second connect,
\* inside the except clause: its failure propagates.
ConnectFallback ==
    /\ pc = "reconnect"
    /\ continue_conversation' = FALSE
    /\ \E outcome \in ConnectOutcomes(FALSE) :
         /\ connects' = Append(connects, [client |-> 2, cont |-> FALSE, outcome |-> outcome])
         /\ client' = 2
         /\ IF outcome = "ok"
            THEN /\ pc' = "register"
                 /\ UNCHANGED << events, last_exit_code, failed >>
            ELSE RunErrorExit("connect")
    /\ UNCHANGED << adapter_initialized, first_run, turn_count,
                    current_message_id, active_client, run, request, echo_i,
                    disconnects, blocks, has_content, received, uuids,
                    interrupted >>
    /\ UNCHANGED sessionVars


\* `call` raised inside the inner try block: control goes to the finally
\* clause with the exception pending.
RaiseInTry(call) ==
    /\ failed' = call
    /\ pc' = "finally"

\* Entry of the inner try: register the client, announce the continuation
\* when this is not the first run, emit StepStarted.
Register ==
    /\ pc = "register"
    /\ active_client' = client
    /\ Emit((IF ~first_run THEN << Event("RAW", None, "Continuing conversation") >> ELSE <<>>)
            \o << Event("STEP_STARTED", Uuid4, "processing_prompt") >>)
    /\ uuids' = uuids + 1
    /\ pc' = "query"
    /\ UNCHANGED << adapter_initialized, first_run, turn_count,
                    current_message_id, last_exit_code, run, request, echo_i,
                    continue_conversation, connects, client, disconnects,
                    blocks, has_content, received, failed, interrupted >>
    /\ UNCHANGED sessionVars

\* await client.query(prompt)
Query ==
    /\ pc = "query"
    /\ \E ok \in BOOLEAN :
         IF ok THEN pc' = "receive" /\ UNCHANGED failed
         ELSE RaiseInTry("query")
    /\ UNCHANGED << adapterVars, run, request, events, echo_i,
                    continue_conversation, connects, client, disconnects,
                    blocks, has_content, received, uuids, interrupted >>
    /\ UNCHANGED sessionVars

\* receive_response() yields a StreamEvent.
\*   message_start: a new message id, TextMessageStart.
\*   content_block_delta with a non-empty text_delta: TextMessageContent
\*   against _current_message_id.  With no current id the event is built
\*   with message_id=None: the event class (ag_ui, not part of the
\*   repository) either accepts it or raises.
\*   Anything else (empty text, other delta or event types): no event.
ReceiveStreamEvent ==
    /\ pc = "receive"
    /\ received < MaxAgentMsgs
    /\ received' = received + 1
    /\ \E event_type \in {"message_start", "text_delta", "other"}, accepted \in BOOLEAN :
         CASE event_type = "message_start" ->
                /\ current_message_id' = Uuid4
                /\ uuids' = uuids + 1
                /\ Emit(<< Event("TEXT_MESSAGE_START", Uuid4, "assistant") >>)
                /\ UNCHANGED << pc, failed >>
           [] event_type = "text_delta" ->
                IF current_message_id # None \/ accepted
                THEN /\ Emit(<< Event("TEXT_MESSAGE_CONTENT", current_message_id, "chunk") >>)
                     /\ UNCHANGED << current_message_id, uuids, pc, failed >>
                ELSE /\ RaiseInTry("event")
                     /\ UNCHANGED << current_message_id, uuids, events >>
           [] event_type = "other" ->
                UNCHANGED << current_message_id, uuids, events, pc, failed >>
    /\ UNCHANGED << adapter_initialized, first_run, turn_count, active_client,
                    last_exit_code, run, request, echo_i,
                    continue_conversation, connects, client, disconnects,
                    blocks, has_content, interrupted >>
    /\ UNCHANGED sessionVars

\* receive_response() yields a SystemMessage: a Raw debug log when it
\* carries text, nothing otherwise (the session id is only logged).
ReceiveSystemMessage ==
    /\ pc = "receive"
    /\ received < MaxAgentMsgs
    /\ received' = received + 1
    /\ \E text \in BOOLEAN :
         IF text THEN Emit(<< Event("RAW", None, "debug") >>)
         ELSE UNCHANGED events
    /\ UNCHANGED << adapterVars, pc, run, request, echo_i,
                    continue_conversation, connects, client, disconnects,
                    blocks, has_content, uuids, failed, interrupted >>
    /\ UNCHANGED sessionVars

\* receive_response() yields an AssistantMessage or a UserMessage: its
\* blocks are processed one by one, then the text span is closed.
ReceiveStructuredMessage ==
    /\ pc = "receive"
    /\ received < MaxAgentMsgs
    /\ received' = received + 1
    /\ \E bs \in BlockSeqs, is_assistant \in BOOLEAN :
         /\ blocks' = bs
         /\ has_content' = (bs # <<>>)
         /\ IF is_assistant /\ obs_raises("start_turn")
            THEN RaiseInTry("obs.start_turn")
            ELSE pc' = "blocks" /\ UNCHANGED failed
    /\ UNCHANGED << adapterVars, run, request, events, echo_i,
                    continue_conversation, connects, client, disconnects,
                    uuids, interrupted >>
    /\ UNCHANGED sessionVars

\* BlockEvents that reports the result of every tool-result block in the
\* result field.
BlockEventsErrorAsResult(block, tool_id) ==
    CASE block.kind = "text" -> <<>>
      [] block.kind = "tool_use" ->
           << Event("TOOL_CALL_START", tool_id, "tool") >>
           \o (IF block.input THEN << Event("TOOL_CALL_ARGS", tool_id, "json") >> ELSE <<>>)
      [] block.kind = "tool_result" ->
           IF block.id # None
           THEN << Event("TOOL_CALL_END", block.id, "result") >>
           ELSE <<>>
      [] block.kind = "thinking" -> << Event("RAW", None, "thinking_block") >>

\* BlockEvents without the `if tool_input` test.
BlockEventsAlwaysArgs(block, tool_id) ==
    CASE block.kind = "text" -> <<>>
      [] block.kind = "tool_use" ->
           << Event("TOOL_CALL_START", tool_id, "tool"),
              Event("TOOL_CALL_ARGS", tool_id, "json") >>
      [] block.kind = "tool_result" ->
           IF block.id # None
           THEN << Event("TOOL_CALL_END", block.id, IF block.is_error THEN "error" ELSE "result") >>
           ELSE <<>>
      [] block.kind = "thinking" -> << Event("RAW", None, "thinking_block") >>

\* The events of one content block, given the id used for a tool-use block.
BlockEvents(block, tool_id) ==
    CASE block.kind = "text" -> <<>>
      [] block.kind = "tool_use" ->
           << Event("TOOL_CALL_START", tool_id, "tool") >>
           \o (IF block.input THEN << Event("TOOL_CALL_ARGS", tool_id, "json") >> ELSE <<>>)
      [] block.kind = "tool_result" ->
           IF block.id # None
           THEN << Event("TOOL_CALL_END", block.id, IF block.is_error THEN "error" ELSE "result") >>
           ELSE <<>>
      [] block.kind = "thinking" -> << Event("RAW", None, "thinking_block") >>

\* One iteration of the block loop.
ProcessBlock ==
    /\ pc = "blocks"
    /\ blocks # <<>>
    /\ LET block   == Head(blocks)
           fresh   == block.kind = "tool_use" /\ block.id = None
           tool_id == IF fresh THEN Uuid4 ELSE block.id
       IN  /\ Emit(BlockEvents(block, tool_id))
           /\ uuids' = IF fresh THEN uuids + 1 ELSE uuids
    /\ blocks' = Tail(blocks)
    /\ IF Head(blocks).kind \in {"tool_use", "tool_result"} /\ obs_raises("track_tool")
       THEN RaiseInTry("obs.track_tool")
       ELSE UNCHANGED << pc, failed >>
    /\ UNCHANGED << adapterVars, run, request, echo_i,
                    continue_conversation, connects, client, disconnects,
                    has_content, received, interrupted >>
    /\ UNCHANGED sessionVars

\* EndBlocks without the test of the message's content.
EndBlocksIgnoresContent ==
    /\ pc = "blocks"
    /\ blocks = <<>>
    /\ IF current_message_id # None
       THEN /\ Emit(<< Event("TEXT_MESSAGE_END", current_message_id, "") >>)
            /\ current_message_id' = None
       ELSE UNCHANGED << events, current_message_id >>
    /\ pc' = "receive"
    /\ UNCHANGED << adapter_initialized, first_run, turn_count, active_client,
                    last_exit_code, run, request, echo_i,
                    continue_conversation, connects, client, disconnects,
                    blocks, has_content, received, uuids, failed, interrupted >>
    /\ UNCHANGED sessionVars

\* After the block loop: TextMessageEnd when the message had content and a
\* message id is current; the id is cleared.
EndBlocks ==
    /\ pc = "blocks"
    /\ blocks = <<>>
    /\ IF has_content /\ current_message_id # None
       THEN /\ Emit(<< Event("TEXT_MESSAGE_END", current_message_id, "") >>)
            /\ current_message_id' = None
       ELSE UNCHANGED << events, current_message_id >>
    /\ pc' = "receive"
    /\ UNCHANGED << adapter_initialized, first_run, turn_count, active_client,
                    last_exit_code, run, request, echo_i,
                    continue_conversation, connects, client, disconnects,
                    blocks, has_content, received, uuids, failed, interrupted >>
    /\ UNCHANGED sessionVars

\* UpdateTurnCount without the `>` test: the reported count is assigned.
UpdateTurnCountAssign(count, sdk_num_turns) ==
    IF sdk_num_turns # NoTurns THEN sdk_num_turns ELSE count

\* The turn-count update of the ResultMessage branch.
UpdateTurnCount(count, sdk_num_turns) ==
    IF sdk_num_turns # NoTurns /\ sdk_num_turns > count THEN sdk_num_turns ELSE count

\* receive_response() yields a ResultMessage.
ReceiveResultMessage ==
    /\ pc = "receive"
    /\ received < MaxAgentMsgs
    /\ received' = received + 1
    /\ \E sdk_num_turns \in {NoTurns} \cup (0 .. MaxTurns) :
         /\ turn_count' = UpdateTurnCount(turn_count, sdk_num_turns)
         /\ Emit(<< ResultEvent(sdk_num_turns) >>)
    /\ \E current_message \in BOOLEAN :
         IF current_message /\ obs_raises("end_turn")
         THEN RaiseInTry("obs.end_turn")
         ELSE UNCHANGED << pc, failed >>
    /\ UNCHANGED << adapter_initialized, first_run, current_message_id,
                    active_client, last_exit_code, run, request, echo_i,
                    continue_conversation, connects, client, disconnects,
                    blocks, has_content, uuids, interrupted >>
    /\ UNCHANGED sessionVars

\* receive_response() raises.
ReceiveRaises ==
    /\ pc = "receive"
    /\ RaiseInTry("receive")
    /\ UNCHANGED << adapterVars, run, request, events, echo_i,
                    continue_conversation, connects, client, disconnects,
                    blocks, has_content, received, uuids, interrupted >>
    /\ UNCHANGED sessionVars

\* Exhausted with a step id drawn anew for StepFinished.
ExhaustedFreshStepId ==
    /\ pc = "receive"
    /\ Emit(<< Event("STEP_FINISHED", Uuid4, "processing_prompt") >>)
    /\ first_run' = FALSE
    /\ pc' = "finally"
    /\ UNCHANGED << adapter_initialized, turn_count, current_message_id,
                    active_client, last_exit_code, run, request, echo_i,
                    continue_conversation, connects, client, disconnects,
                    blocks, has_content, received, uuids, failed, interrupted >>
    /\ UNCHANGED sessionVars

\* receive_response() is exhausted: StepFinished, first run complete.
Exhausted ==
    /\ pc = "receive"
    /\ Emit(<< Event("STEP_FINISHED", <<"uuid", run, 1>>, "processing_prompt") >>)
    /\ first_run' = FALSE
    /\ pc' = "finally"
    /\ UNCHANGED << adapter_initialized, turn_count, current_message_id,
                    active_client, last_exit_code, run, request, echo_i,
                    continue_conversation, connects, client, disconnects,
                    blocks, has_content, received, uuids, failed, interrupted >>
    /\ UNCHANGED sessionVars

\* Finally that clears the active client on the success path only.
FinallyKeepsClientOnError ==
    /\ pc = "finally"
    /\ active_client' = IF failed # "" THEN active_client ELSE NoClient
    /\ disconnects' = Append(disconnects, client)
    /\ pc' = "disconnect"
    /\ UNCHANGED << adapter_initialized, first_run, turn_count,
                    current_message_id, last_exit_code, run, request, events,
                    echo_i, continue_conversation, connects, client, blocks,
                    has_content, received, uuids, failed, interrupted >>
    /\ UNCHANGED sessionVars

\* Finally that calls disconnect() with the client still registered.
FinallyDisconnectFirst ==
    /\ pc = "finally"
    /\ disconnects' = Append(disconnects, client)
    /\ pc' = "disconnect"
    /\ UNCHANGED << adapter_initialized, first_run, turn_count,
                    current_message_id, active_client, last_exit_code, run,
                    request, events, echo_i, continue_conversation, connects,
                    client, blocks, has_content, received, uuids, failed,
                    interrupted >>
    /\ UNCHANGED sessionVars

\* The finally clause up to its await: the active client is cleared, then
\* disconnect() is called on `client`.
Finally ==
    /\ pc = "finally"
    /\ active_client' = NoClient
    /\ disconnects' = Append(disconnects, client)
    /\ pc' = "disconnect"
    /\ UNCHANGED << adapter_initialized, first_run, turn_count,
                    current_message_id, last_exit_code, run, request, events,
                    echo_i, continue_conversation, connects, client, blocks,
                    has_content, received, uuids, failed, interrupted >>
    /\ UNCHANGED sessionVars

\* client.disconnect() returns or raises.  With an exception pending from
\* the try block, or when disconnect raises, the exception reaches the
\* except clause of process_run.
Disconnected ==
    /\ pc = "disconnect"
    /\ \E ok \in BOOLEAN :
         IF failed # "" \/ ~ok
         THEN RunErrorExit(IF failed # "" THEN failed ELSE "disconnect")
         ELSE /\ pc' = "finalize"
              /\ UNCHANGED << events, last_exit_code, failed >>
    /\ UNCHANGED << adapter_initialized, first_run, turn_count,
                    current_message_id, active_client, run, request, echo_i,
                    continue_conversation, connects, client, disconnects,
                    blocks, has_content, received, uuids, interrupted >>
    /\ UNCHANGED sessionVars

\* Finalize, were obs.finalize() to return only once the run has been
\* interrupted.
FinalizeWaitsForInterrupt ==
    /\ pc = "finalize"
    /\ interrupted
    /\ Emit(<< Event("RUN_FINISHED", None, "") >>)
    /\ last_exit_code' = 0
    /\ pc' = "done"
    /\ UNCHANGED << adapter_initialized, first_run, turn_count,
                    current_message_id, active_client, run, request, echo_i,
                    continue_conversation, connects, client, disconnects,
                    blocks, has_content, received, uuids, failed, interrupted >>
    /\ UNCHANGED sessionVars

\* obs.finalize(), then back in process_run: RunFinished, status code 0.
\* The await of obs.finalize() is not guarded: were it to raise, the run
\* would end with RunError.
Finalize ==
    /\ pc = "finalize"
    /\ IF obs_raises("finalize")
       THEN RunErrorExit("obs.finalize")
       ELSE /\ Emit(<< Event("RUN_FINISHED", None, "") >>)
            /\ last_exit_code' = 0
            /\ pc' = "done"
            /\ UNCHANGED failed
    /\ UNCHANGED << adapter_initialized, first_run, turn_count,
                    current_message_id, active_client, run, request, echo_i,
                    continue_conversation, connects, client, disconnects,
                    blocks, has_content, received, uuids, interrupted >>
    /\ UNCHANGED sessionVars

\* Interrupt as a cancellation: the receive loop of the run in flight is left
\* with an exception.
InterruptCancelsRun ==
    /\ IF active_client = NoClient
       THEN UNCHANGED << interrupted, pc, failed >>
       ELSE /\ interrupted' = TRUE
            /\ IF pc = "receive"
               THEN pc' = "finally" /\ failed' = "interrupt"
               ELSE UNCHANGED << pc, failed >>
    /\ interrupt_raised' = FALSE
    /\ UNCHANGED << adapterVars, run, request, events, echo_i,
                    continue_conversation, connects, client, disconnects,
                    blocks, has_content, received, uuids, is_resume, obs_down, runs, callVars >>

\* Interrupt without the try / except around the client's interrupt().
InterruptWithoutExcept ==
    /\ IF active_client = NoClient
       THEN /\ UNCHANGED interrupted
            /\ interrupt_raised' = FALSE
       ELSE \E ok \in BOOLEAN :
              /\ interrupted' = TRUE
              /\ interrupt_raised' = ~ok
    /\ UNCHANGED << adapterVars, pc, run, request, events, echo_i,
                    continue_conversation, connects, client, disconnects,
                    blocks, has_content, received, uuids, failed, is_resume,
                    obs_down, runs, callVars >>

\* ClaudeCodeAdapter.interrupt: without a registered client it logs and
\* returns; otherwise it calls interrupt() on the registered client, and an
\* exception of that call is logged, not raised.
Interrupt ==
    /\ IF active_client = NoClient
       THEN /\ UNCHANGED interrupted
            /\ interrupt_raised' = FALSE
       ELSE \E ok \in BOOLEAN :
              /\ interrupted' = TRUE
              /\ interrupt_raised' = FALSE
    /\ UNCHANGED << adapterVars, pc, run, request, events, echo_i,
                    continue_conversation, connects, client, disconnects,
                    blocks, has_content, received, uuids, failed, is_resume,
                    obs_down, runs, callVars >>

\* ResetAdapter, were it to start the turn count afresh as well.
ResetAdapterClearsTurns ==
    /\ adapter_initialized' = FALSE
    /\ first_run' = TRUE
    /\ turn_count' = 0
    /\ UNCHANGED << current_message_id, active_client,
                    last_exit_code, pc, run, request, events, echo_i,
                    continue_conversation, connects, client, disconnects,
                    blocks, has_content, received, uuids, failed, interrupted >>
    /\ UNCHANGED sessionVars

\* main.py change_workflow / add_repo / remove_repo: the adapter is to be
\* initialized again and the next run counts as a first run.  These are
\* HTTP handlers of their own: they run at any suspension point of a run.
ResetAdapter ==
    /\ adapter_initialized' = FALSE
    /\ first_run' = TRUE
    /\ UNCHANGED << turn_count, current_message_id, active_client,
                    last_exit_code, pc, run, request, events, echo_i,
                    continue_conversation, connects, client, disconnects,
                    blocks, has_content, received, uuids, failed, interrupted >>
    /\ UNCHANGED sessionVars

Next ==
    \/ StartRun
    \/ InitializeAdapter
    \/ ProcessRunBegin
    \/ EchoMessage
    \/ ExtractPrompt
    \/ PrepareOptions
    \/ Connect
    \/ ConnectFallback
    \/ Register
    \/ Query
    \/ ReceiveStreamEvent
    \/ ReceiveSystemMessage
    \/ ReceiveStructuredMessage
    \/ ProcessBlock
    \/ EndBlocks
    \/ ReceiveResultMessage
    \/ ReceiveRaises
    \/ Exhausted
    \/ Finally
    \/ Disconnected
    \/ Finalize
    \/ Interrupt
    \/ ResetAdapter

Spec == Init /\ [][Next]_vars

\* One run, accepted with a request of up to MaxEchoMsgs messages, followed
\* from event_generator to the StepStarted of _run_claude_agent_sdk.
EchoInit ==
    /\ adapter_initialized = FALSE
    /\ first_run = TRUE
    /\ turn_count = 0
    /\ current_message_id = None
    /\ active_client = NoClient
    /\ last_exit_code = 1
    /\ pc = "generator"
    /\ run = 1
    /\ request \in SeqsUpTo(Message, MaxEchoMsgs)
    /\ events = <<>>
    /\ echo_i = 1
    /\ continue_conversation = FALSE
    /\ connects = <<>>
    /\ client = NoClient
    /\ disconnects = <<>>
    /\ blocks = <<>>
    /\ has_content = FALSE
    /\ received = 0
    /\ uuids = 0
    /\ failed = ""
    /\ interrupted = FALSE
    /\ is_resume \in BOOLEAN
    /\ interrupt_raised = FALSE
    /\ obs_down = FALSE
    /\ runs = NoRuns
    /\ NoCalls

EchoNext ==
    \/ InitializeAdapter
    \/ ProcessRunBegin
    \/ EchoMessage
    \/ ExtractPrompt
    \/ PrepareOptions
    \/ Connect
    \/ ConnectFallback
    \/ Register

EchoSpec == EchoInit /\ [][EchoNext]_vars

\* ------------------------------------------------ runs served at the same time
\* run_agent holds no lock: every POST / starts its own event_generator, and
\* the generators of several runs interleave at their awaits and yields on
\* the one adapter.  OverlapSpec follows the runs through the steps that
\* touch the adapter state and the agent clients.
runVars == << pc, run, request, events, echo_i, continue_conversation,
              connects, client, disconnects, blocks, has_content, received,
              uuids, failed, interrupted >>

\* What a step of OverlapSpec leaves alone besides the fields it names.
overlapFrame == << runVars, turn_count, current_message_id, last_exit_code,
                   is_resume, interrupt_raised, obs_down, callVars >>

\* The k-th client created by run r, and the run that created client c.
OverlapClient(r, k) == 2 * (r - 1) + k

OverlapOwner(c) == (c + 1) \div 2

\* POST / : the run is accepted.
OverlapStart(r) ==
    /\ runs[r].pc = "idle"
    /\ runs' = [q \in OverlapIds |->
                  IF q = r THEN [runs[q] EXCEPT !.pc = "generator"]
                  ELSE [runs[q] EXCEPT !.after_reset = @ /\ runs[q].pc # "idle"]]
    /\ UNCHANGED << adapter_initialized, first_run, active_client, overlapFrame >>

\* event_generator: the test of _adapter_initialized, up to the await of
\* adapter.initialize().
OverlapInitBegin(r) ==
    /\ runs[r].pc = "generator"
    /\ runs' = [runs EXCEPT ![r].pc = IF adapter_initialized THEN "process_run"
                                     ELSE "initialize",
                            ![r].initialized = ~adapter_initialized]
    /\ UNCHANGED << adapter_initialized, first_run, active_client, overlapFrame >>

\* adapter.initialize() returns, and _adapter_initialized is set, or it
\* raises and the run ends with RunError.
OverlapInitEnd(r) ==
    /\ runs[r].pc = "initialize"
    /\ \E ok \in BOOLEAN :
         IF ok
         THEN /\ adapter_initialized' = TRUE
              /\ runs' = [runs EXCEPT ![r].pc = "process_run"]
         ELSE /\ runs' = [runs EXCEPT ![r].pc = "done"]
              /\ UNCHANGED adapter_initialized
    /\ UNCHANGED << first_run, active_client, overlapFrame >>

\* process_run and _run_claude_agent_sdk up to the creation of the client:
\* the options ask to continue when this is not the first run or IS_RESUME
\* is set.  Without a prompt, or when a call raises, the run ends here.
OverlapPrepare(r) ==
    /\ runs[r].pc = "process_run"
    /\ \E ok \in BOOLEAN :
         IF ok
         THEN runs' = [runs EXCEPT ![r].pc = "connect",
                                   ![r].cont = ~first_run \/ is_resume]
         ELSE runs' = [runs EXCEPT ![r].pc = "done"]
    /\ UNCHANGED << adapter_initialized, first_run, active_client, overlapFrame >>

\* The first client is created and connected.
OverlapConnect(r) ==
    /\ runs[r].pc = "connect"
    /\ \E outcome \in ConnectOutcomes(runs[r].cont) :
         runs' = [runs EXCEPT ![r].clients = 1,
                              ![r].pc = IF outcome = "ok" THEN "register"
                                        ELSE IF IsResumeError(outcome) THEN "reconnect"
                                        ELSE "done"]
    /\ UNCHANGED << adapter_initialized, first_run, active_client, overlapFrame >>

\* The fallback: a second client without continuation is created and
\* connected.
OverlapConnectFallback(r) ==
    /\ runs[r].pc = "reconnect"
    /\ \E ok \in BOOLEAN :
         runs' = [runs EXCEPT ![r].clients = 2,
                              ![r].cont = FALSE,
                              ![r].pc = IF ok THEN "register" ELSE "done"]
    /\ UNCHANGED << adapter_initialized, first_run, active_client, overlapFrame >>

\* The connected client is registered as the active client.
OverlapRegister(r) ==
    /\ runs[r].pc = "register"
    /\ active_client' = OverlapClient(r, runs[r].clients)
    /\ runs' = [runs EXCEPT ![r].pc = "receive"]
    /\ UNCHANGED << adapter_initialized, first_run, overlapFrame >>

\* query and the receive loop: the loop is exhausted, and _first_run is
\* cleared, or a call raises.
OverlapReceive(r) ==
    /\ runs[r].pc = "receive"
    /\ \E exhausted \in BOOLEAN :
         first_run' = IF exhausted THEN FALSE ELSE first_run
    /\ runs' = [runs EXCEPT ![r].pc = "finally"]
    /\ UNCHANGED << adapter_initialized, active_client, overlapFrame >>

\* OverlapFinally that leaves the handle of the client in place.
OverlapFinallyKeepsHandle(r) ==
    /\ runs[r].pc = "finally"
    /\ runs' = [runs EXCEPT ![r].pc = "disconnect"]
    /\ UNCHANGED << adapter_initialized, first_run, active_client, overlapFrame >>

\* The finally clause up to its await: the active client is cleared and
\* disconnect() is called on the client of the run.
OverlapFinally(r) ==
    /\ runs[r].pc = "finally"
    /\ active_client' = NoClient
    /\ runs' = [runs EXCEPT ![r].pc = "disconnect"]
    /\ UNCHANGED << adapter_initialized, first_run, overlapFrame >>

\* disconnect() returns or raises: the run ends.
OverlapDisconnected(r) ==
    /\ runs[r].pc = "disconnect"
    /\ runs' = [runs EXCEPT ![r].pc = "done"]
    /\ UNCHANGED << adapter_initialized, first_run, active_client, overlapFrame >>

\* ClaudeCodeAdapter.interrupt with several runs in flight: it calls
\* interrupt() on whichever client is registered.
OverlapInterrupt ==
    /\ active_client # NoClient
    /\ LET r == OverlapOwner(active_client)
       IN  runs' = [runs EXCEPT ![r].signalled = TRUE,
                                ![r].late = @ \/ runs[r].pc \in {"disconnect", "done"}]
    /\ UNCHANGED << adapter_initialized, first_run, active_client, overlapFrame >>

\* change_workflow / add_repo / remove_repo with several runs in flight: the
\* two flags are reset; the runs not yet accepted are the ones that start
\* after the request.
OverlapReset ==
    /\ adapter_initialized' = FALSE
    /\ first_run' = TRUE
    /\ runs' = [q \in OverlapIds |->
                  [runs[q] EXCEPT !.after_reset = @ \/ runs[q].pc = "idle"]]
    /\ UNCHANGED << active_client, overlapFrame >>

OverlapNext ==
    \/ \E r \in OverlapIds : OverlapStart(r)
    \/ \E r \in OverlapIds : OverlapInitBegin(r)
    \/ \E r \in OverlapIds : OverlapInitEnd(r)
    \/ \E r \in OverlapIds : OverlapPrepare(r)
    \/ \E r \in OverlapIds : OverlapConnect(r)
    \/ \E r \in OverlapIds : OverlapConnectFallback(r)
    \/ \E r \in OverlapIds : OverlapRegister(r)
    \/ \E r \in OverlapIds : OverlapReceive(r)
    \/ \E r \in OverlapIds : OverlapFinally(r)
    \/ \E r \in OverlapIds : OverlapDisconnected(r)
    \/ OverlapInterrupt
    \/ OverlapReset

OverlapSpec == Init /\ [][OverlapNext]_vars

\* ------------------------------------------------------- pure functions
\* The adapter and the module state before any request, with IS_RESUME
\* unset.
NoSession ==
    /\ adapter_initialized = FALSE
    /\ first_run = TRUE
    /\ turn_count = 0
    /\ current_message_id = None
    /\ active_client = NoClient
    /\ last_exit_code = 1
    /\ pc = "idle"
    /\ run = 0
    /\ request = <<>>
    /\ events = <<>>
    /\ echo_i = 1
    /\ continue_conversation = FALSE
    /\ connects = <<>>
    /\ client = NoClient
    /\ disconnects = <<>>
    /\ blocks = <<>>
    /\ has_content = FALSE
    /\ received = 0
    /\ uuids = 0
    /\ failed = ""
    /\ interrupted = FALSE
    /\ is_resume = FALSE
    /\ interrupt_raised = FALSE
    /\ obs_down = FALSE
    /\ runs = NoRuns

\* What a call of a pure function leaves alone.
sessionFrame == << adapterVars, runVars, is_resume, interrupt_raised, obs_down, runs >>

\* map_to_vertex_model is called with any of ModelInputs.
MapInit ==
    /\ NoSession
    /\ NoInputCall
    /\ NoExtractCall
    /\ NoPathsCall
    /\ llm_model \in ModelInputs
    /\ vertex_run \in BOOLEAN
    /\ vertex_models = <<>>
    /\ configured_model = NotConverted

\* map_to_vertex_model is applied to the argument, then to its own result.
MapToVertexModel ==
    /\ Len(vertex_models) < 2
    /\ vertex_models' =
          Append(vertex_models,
                 map_to_vertex_model(IF vertex_models = <<>> THEN llm_model
                                     ELSE vertex_models[Len(vertex_models)]))
    /\ UNCHANGED << sessionFrame, llm_model, vertex_run, configured_model, inputVars,
                    extractVars, pathVars >>

\* The default model of _run_claude_agent_sdk.
DefaultModel ==
    PyStr(claude_sonnet_4_5 \o << "@" >> \o << "2", "0", "2", "5", "0", "9", "2", "9" >>)

\* _run_claude_agent_sdk, "Get model configuration": LLM_MODEL is a string of
\* the environment or None; the default when it is empty, and in a Vertex
\* run a model that is set goes through _map_to_vertex_model.
ConfigureModel ==
    /\ configured_model = NotConverted
    /\ llm_model.type \in {"str", "NoneType"}
    /\ configured_model' =
          IF vertex_run /\ Truthy(llm_model)
          THEN _map_to_vertex_model(llm_model)
          ELSE Or(llm_model, DefaultModel)
    /\ UNCHANGED << sessionFrame, llm_model, vertex_run, vertex_models, inputVars,
                    extractVars, pathVars >>

MapNext == MapToVertexModel \/ ConfigureModel

MapSpec == MapInit /\ [][MapNext]_vars

\* POST / is called with any of RunnerInputs.
\* Paths below the workspace are the sequences of their components; the
\* workspace itself is the empty one.
workspace_path == <<>>

artifacts_path == <<"artifacts">>

file_uploads_path == <<"file-uploads">>

repos_base(name) == <<"repos", name>>

InList(p, dirs) == \E i \in DOMAIN dirs : dirs[i] = p

\* `if p not in add_dirs: add_dirs.append(p)`
AppendIfAbsent(dirs, p) == IF InList(p, dirs) THEN dirs ELSE Append(dirs, p)

\* The names _get_repos_config returns (entries without a name or a url are
\* dropped, entries with the same name are kept), MAIN_REPO_NAME stripped,
\* and MAIN_REPO_INDEX: not set, an integer, or text int() raises on.
RepoNames == {"a", "b"}

ReposConfigs == SeqsUpTo(RepoNames, MaxRepos)

MainIndexes ==
    {[kind |-> "unset", n |-> 0], [kind |-> "junk", n |-> 0]}
        \cup {[kind |-> "int", n |-> n] : n \in -1 .. MaxRepos}

PathsEnvs ==
    [workflow_url : BOOLEAN, workflow_exists : BOOLEAN, repos : ReposConfigs,
     main_name : {"", "a", "c"}, main_index : MainIndexes]

\* _setup_workflow_paths, the loop over repos_cfg: each repo path is appended
\* unless it is in the list already.
RECURSIVE WorkflowRepoDirs(_, _)
WorkflowRepoDirs(repos_cfg, i) ==
    IF i = 0 THEN <<>>
    ELSE AppendIfAbsent(WorkflowRepoDirs(repos_cfg, i - 1), repos_base(repos_cfg[i]))

\* ClaudeCodeAdapter._setup_workflow_paths: the derived workflow directory
\* when it exists, workflows/default otherwise; every repo, artifacts and
\* file-uploads as additional directories.
_setup_workflow_paths(env) ==
    [done |-> TRUE,
     cwd |-> IF env.workflow_exists THEN <<"workflows", "derived">>
             ELSE <<"workflows", "default">>,
     add_dirs |-> AppendIfAbsent(
                      AppendIfAbsent(WorkflowRepoDirs(env.repos, Len(env.repos)),
                                     artifacts_path),
                      file_uploads_path)]

\* _setup_multi_repo_paths, the loop over repos_cfg: each repo path other than
\* the working directory is appended.
RECURSIVE MultiRepoDirs(_, _, _)
MultiRepoDirs(repos_cfg, i, cwd_path) ==
    IF i = 0 THEN <<>>
    ELSE LET before == MultiRepoDirs(repos_cfg, i - 1, cwd_path)
             p == repos_base(repos_cfg[i])
         IN  IF p # cwd_path THEN Append(before, p) ELSE before

\* ClaudeCodeAdapter._setup_multi_repo_paths.
_setup_multi_repo_paths(env) ==
    LET repos_cfg == env.repos
        parsed  == IF env.main_index.kind = "int" THEN env.main_index.n ELSE 0
        idx_val == IF parsed < 0 \/ parsed >= Len(repos_cfg) THEN 0 ELSE parsed
        main_name == IF env.main_name # "" THEN env.main_name ELSE repos_cfg[idx_val + 1]
        cwd_path  == repos_base(main_name)
    IN  [done |-> TRUE,
         cwd |-> cwd_path,
         add_dirs |-> AppendIfAbsent(
                          AppendIfAbsent(MultiRepoDirs(repos_cfg, Len(repos_cfg), cwd_path),
                                         artifacts_path),
                          file_uploads_path)]

\* _run_claude_agent_sdk, "Determine cwd and additional dirs".
ResolvePaths(env) ==
    IF env.workflow_url THEN _setup_workflow_paths(env)
    ELSE IF env.repos # <<>> THEN _setup_multi_repo_paths(env)
    ELSE [done |-> TRUE, cwd |-> artifacts_path, add_dirs |-> <<>>]

\* The resolution on its own: the configuration is drawn from PathsEnvs and
\* resolved in one step.
PathInit ==
    /\ NoSession
    /\ NoMapCall
    /\ NoInputCall
    /\ NoExtractCall
    /\ paths_env \in PathsEnvs
    /\ resolved_paths = NotResolved

SetupPaths ==
    /\ ~resolved_paths.done
    /\ resolved_paths' = ResolvePaths(paths_env)
    /\ UNCHANGED << sessionFrame, paths_env, mapVars, inputVars, extractVars >>

PathSpec == PathInit /\ [][SetupPaths]_vars

\* _extract_user_message as process_run calls it, on its own: the messages
\* are drawn from InputMessages and the call is one step.
ExtractInit ==
    /\ NoSession
    /\ NoMapCall
    /\ NoInputCall
    /\ NoPathsCall
    /\ input_messages \in InputMessages
    /\ user_message = NotExtracted

ExtractUserMessage ==
    /\ ~user_message.done
    /\ user_message' = [done |-> TRUE, text |-> _extract_user_message(input_messages)]
    /\ UNCHANGED << sessionFrame, input_messages, mapVars, inputVars, pathVars >>

ExtractSpec == ExtractInit /\ [][ExtractUserMessage]_vars

InputInit ==
    /\ NoSession
    /\ NoMapCall
    /\ NoExtractCall
    /\ NoPathsCall
    /\ runner_input \in RunnerInputs
    /\ run_agent_input = NotConverted

\* run_agent: input_data.to_run_agent_input().  The RunAgentInput class
\* (ag_ui, not part of the repository) accepts the arguments or raises.
ToRunAgentInput ==
    /\ run_agent_input = NotConverted
    /\ \E generated \in GeneratedRunIds, accepted \in BOOLEAN :
         run_agent_input' =
             IF accepted
             THEN [type |-> "RunAgentInput",
                   value |-> to_run_agent_input(runner_input, generated)]
             ELSE ValidationError
    /\ UNCHANGED << sessionFrame, runner_input, mapVars, extractVars, pathVars >>

InputSpec == InputInit /\ [][ToRunAgentInput]_vars

\* The steps of the run in flight: the generators of event_generator,
\* process_run and _run_claude_agent_sdk.
RunStep ==
    \/ InitializeAdapter
    \/ ProcessRunBegin
    \/ EchoMessage
    \/ ExtractPrompt
    \/ PrepareOptions
    \/ Connect
    \/ ConnectFallback
    \/ Register
    \/ Query
    \/ ReceiveStreamEvent
    \/ ReceiveSystemMessage
    \/ ReceiveStructuredMessage
    \/ ProcessBlock
    \/ EndBlocks
    \/ ReceiveResultMessage
    \/ ReceiveRaises
    \/ Exhausted
    \/ Finally
    \/ Disconnected
    \/ Finalize

\* One run of a session whose observability sink works or is down.
ObsInit ==
    /\ adapter_initialized = FALSE
    /\ first_run = TRUE
    /\ turn_count = 0
    /\ current_message_id = None
    /\ active_client = NoClient
    /\ last_exit_code = 1
    /\ pc = "generator"
    /\ run = 1
    /\ request \in Requests
    /\ events = <<>>
    /\ echo_i = 1
    /\ continue_conversation = FALSE
    /\ connects = <<>>
    /\ client = NoClient
    /\ disconnects = <<>>
    /\ blocks = <<>>
    /\ has_content = FALSE
    /\ received = 0
    /\ uuids = 0
    /\ failed = ""
    /\ interrupted = FALSE
    /\ is_resume \in BOOLEAN
    /\ interrupt_raised = FALSE
    /\ obs_down \in BOOLEAN
    /\ runs = NoRuns
    /\ NoCalls

ObsSpec == ObsInit /\ [][RunStep]_vars

\* change_workflow / add_repo / remove_repo called while no run is in flight.
ResetBetweenRuns ==
    /\ pc \in {"idle", "done"}
    /\ ResetAdapter

\* A session whose workflow and repositories change between runs only.
FairNext ==
    \/ StartRun
    \/ RunStep
    \/ Interrupt
    \/ ResetBetweenRuns

\* The consumer of the stream keeps pulling, and every awaited call returns
\* or raises: a run that can take a step eventually takes one.  Requests,
\* interrupts and workflow / repository changes arrive or not.
FairSpec == Init /\ [][FairNext]_vars /\ WF_vars(RunStep)


\* ------------------------------------------------------------ properties
IsTerminal(e) == e.type \in {"RUN_FINISHED", "RUN_ERROR"}

Positions(t) == { i \in DOMAIN events : events[i].type = t }

LastEvent == events[Len(events)]

\* The stream of the run is complete: the generator is exhausted.
StreamEnded == pc = "done"

\* process_run got as far as its first yield.
ProcessRunStarted == events # <<>> /\ events[1].type = "RUN_STARTED"

\* C1: a run of process_run that is consumed to the end emits exactly one
\* RunFinished or RunError, as its last event, whatever was raised after
\* RunStarted; before the end of the stream no terminal event is out.
C1_TerminalUniqueAndLast ==
    /\ (StreamEnded /\ ProcessRunStarted) =>
          /\ Cardinality({ i \in DOMAIN events : IsTerminal(events[i]) }) = 1
          /\ IsTerminal(LastEvent)
    /\ (pc \notin {"idle", "done"}) =>
          { i \in DOMAIN events : IsTerminal(events[i]) } = {}

\* C1 witness: a run that raised while draining the agent's messages, after
\* StepStarted, and ended with RunError.
C1_Witness ==
    /\ StreamEnded /\ ProcessRunStarted
    /\ failed = "receive"
    /\ Positions("STEP_STARTED") # {}
    /\ LastEvent.type = "RUN_ERROR"

\* C2: the first event of every stream delivered to the HTTP consumer is
\* RunStarted.
C2_RunStartedFirst ==
    events # <<>> => events[1].type = "RUN_STARTED"

\* C3: a ToolCallEnd{id} has a ToolCallStart{id} before it and no second
\* ToolCallEnd{id} in the run; in a run that ends with RunFinished every
\* ToolCallStart{id} is followed by a ToolCallEnd{id}.
C3_ToolCallPairing ==
    /\ \A j \in Positions("TOOL_CALL_END") :
          /\ \E i \in Positions("TOOL_CALL_START") : i < j /\ events[i].id = events[j].id
          /\ \A k \in Positions("TOOL_CALL_END") : events[k].id = events[j].id => k = j
    /\ (StreamEnded /\ LastEvent.type = "RUN_FINISHED") =>
          \A i \in Positions("TOOL_CALL_START") :
              \E j \in Positions("TOOL_CALL_END") : i < j /\ events[i].id = events[j].id

\* C4: between two TextMessageStart events of a run there is a
\* TextMessageEnd for the first of them.
C4_TextSpanExclusive ==
    \A i, j \in Positions("TEXT_MESSAGE_START") :
        i < j => \E k \in Positions("TEXT_MESSAGE_END") :
                     i < k /\ k < j /\ events[k].id = events[i].id

\* C5: when the stream of a run has ended, every TextMessageStart{id} has
\* exactly one TextMessageEnd{id} after it.
C5_TextSpansClosed ==
    StreamEnded =>
        \A i \in Positions("TEXT_MESSAGE_START") :
            Cardinality({ j \in Positions("TEXT_MESSAGE_END") :
                            i < j /\ events[j].id = events[i].id }) = 1

\* C6: every TextMessageContent carries the id of a TextMessageStart emitted
\* earlier in the same run and not yet ended.
C6_ContentInsideSpan ==
    \A j \in Positions("TEXT_MESSAGE_CONTENT") :
        \E i \in Positions("TEXT_MESSAGE_START") :
            /\ i < j
            /\ events[i].id = events[j].id
            /\ \A k \in Positions("TEXT_MESSAGE_END") :
                  ~(i < k /\ k < j /\ events[k].id = events[i].id)

Max(a, b) == IF a >= b THEN a ELSE b

\* The step emits the StateDelta of a result message.
ResultStep ==
    /\ Len(events') = Len(events) + 1
    /\ events'[Len(events')].type = "STATE_DELTA"

\* C7: no step lowers the tracked turn count; a result message reporting n
\* turns leaves it at the larger of its previous value and n, and one
\* reporting no turn count leaves it unchanged.
C7_TurnCountMonotonic ==
    [][ /\ turn_count' >= turn_count
        /\ ResultStep =>
              LET n == events'[Len(events')].num_turns
              IN  turn_count' = IF n = NoTurns THEN turn_count ELSE Max(turn_count, n)
      ]_vars

\* C7 witness: a result message reported fewer turns than are tracked.
C7_Witness ==
    /\ events # <<>>
    /\ LastEvent.type = "STATE_DELTA"
    /\ LastEvent.num_turns # NoTurns
    /\ LastEvent.num_turns < turn_count

\* The first connect of the run failed with "no conversation found".
FallbackRun == connects # <<>> /\ connects[1].outcome = "no conversation found"

FallbackNotice == "Could not continue conversation, starting fresh..."

\* C8: after a "no conversation found" failure of the first connect there is
\* exactly one more connect attempt, on a new client with continuation
\* disabled, one fallback Raw event and one RunStarted; when the second
\* connect succeeds the run goes on to StepStarted and, nothing else
\* failing, ends with RunFinished; when it fails the run ends with RunError
\* without a third attempt and without StepStarted.
C8_ContinuationFallback ==
    FallbackRun =>
        /\ Len(connects) <= 2
        /\ Cardinality({ i \in Positions("RAW") : events[i].info = FallbackNotice }) = 1
        /\ Cardinality(Positions("RUN_STARTED")) = 1
        /\ pc # "reconnect" =>
              /\ Len(connects) = 2
              /\ connects[2].cont = FALSE
              /\ connects[2].client # connects[1].client
        /\ (Len(connects) = 2 /\ connects[2].outcome = "ok") =>
              /\ pc # "register" => Cardinality(Positions("STEP_STARTED")) = 1
              /\ (StreamEnded /\ failed = "") => LastEvent.type = "RUN_FINISHED"
        /\ (Len(connects) = 2 /\ connects[2].outcome # "ok") =>
              /\ StreamEnded
              /\ LastEvent.type = "RUN_ERROR"
              /\ Positions("STEP_STARTED") = {}

\* C8 witness: a run that fell back, connected at the second attempt and
\* finished.
C8_Witness ==
    /\ FallbackRun
    /\ Len(connects) = 2 /\ connects[2].outcome = "ok"
    /\ StreamEnded
    /\ LastEvent.type = "RUN_FINISHED"

\* C9: _active_client is set exactly from the registration of the connected
\* client to the finally clause of the run, and then it is the run's client;
\* with no run in flight it is None.
C9_ActiveClientWindow ==
    /\ active_client # NoClient <=> pc \in {"query", "receive", "blocks", "finally"}
    /\ active_client # NoClient => active_client = client

\* C9 witness: an interrupted run that raised while draining the agent's
\* messages has ended, and no client is registered.
C9_Witness ==
    /\ StreamEnded
    /\ interrupted
    /\ failed = "receive"
    /\ active_client = NoClient

\* C10: at the end of a run, disconnect has been called exactly once on
\* every client the run created.
C10_DisconnectEachClientOnce ==
    StreamEnded =>
        \A k \in DOMAIN connects :
            Cardinality({ d \in DOMAIN disconnects : disconnects[d] = connects[k].client }) = 1

\* ---------------------------------------------------------------- interrupt
\* The step is the first interrupt() of the run that reaches a client.
InterruptStep == ~interrupted /\ interrupted'

\* C11: an interrupt does not end or truncate the stream of the run.  The
\* interrupt step adds no event and leaves the run where it is (same
\* position, same pending blocks, nothing raised); an interrupted run in
\* which no call raised has ended with StepFinished followed by RunFinished.
C11_InterruptKeepsStream ==
    /\ [][ InterruptStep =>
              /\ events' = events
              /\ pc' = pc
              /\ failed' = failed
              /\ blocks' = blocks
              /\ received' = received ]_vars
    /\ []( (interrupted /\ StreamEnded /\ failed = "") =>
              /\ Len(events) >= 2
              /\ events[Len(events) - 1].type = "STEP_FINISHED"
              /\ LastEvent.type = "RUN_FINISHED" )

\* C11 witness: an interrupted run that received agent messages has ended
\* with RunFinished.
C11_Witness ==
    /\ interrupted
    /\ StreamEnded
    /\ received > 0
    /\ LastEvent.type = "RUN_FINISHED"

\* C12: interrupt() never raises to its caller; it reaches a client only
\* when one is registered, and the call leaves _turn_count, _first_run,
\* _active_client and the open text span as they were.
C12_InterruptFrame ==
    /\ [](~interrupt_raised)
    /\ [](interrupted => client # NoClient)
    /\ [][ InterruptStep =>
              /\ active_client # NoClient
              /\ UNCHANGED << turn_count, first_run, active_client,
                              current_message_id >> ]_vars

\* C12 witness: interrupt() was called on the registered client while a text
\* span was open and a turn count was recorded.
C12_Witness ==
    /\ interrupted
    /\ ~interrupt_raised
    /\ active_client # NoClient
    /\ current_message_id # None
    /\ turn_count > 0

\* ----------------------------------------------------------------- liveness
\* A run is in flight.
RunInFlight == pc \notin {"idle", "done"}

\* C13: under FairSpec every run in flight reaches the end of its stream,
\* and the stream then ends with a terminal event.
C13_RunTerminates ==
    RunInFlight ~> (StreamEnded /\ events # <<>> /\ IsTerminal(LastEvent))

\* C13 witness: a run that drained the whole sequence of the agent, with a
\* fallback connect before it, has ended.
C13_Witness ==
    /\ StreamEnded
    /\ Len(connects) = 2
    /\ received = MaxAgentMsgs
    /\ IsTerminal(LastEvent)

\* ------------------------------------------------------ no user message
\* The request of the run yields no prompt.
NoPrompt == _extract_user_message(PlainMessages(request)) = ""

NoUserMessageLog == Event("RAW", None, "No user message provided")

EchoTypes == {"RAW", "TEXT_MESSAGE_START", "TEXT_MESSAGE_CONTENT", "TEXT_MESSAGE_END"}

\* C14: a run whose request yields no prompt never creates, connects or
\* registers a client and never emits StepStarted; once process_run has
\* started, its stream is RunStarted, the echo events of the user messages,
\* one Raw "No user message provided" and RunFinished, without RunError.
C14_NoUserMessage ==
    /\ NoPrompt =>
          /\ pc \in {"idle", "generator", "process_run", "echo", "done"}
          /\ connects = <<>>
          /\ disconnects = <<>>
          /\ client = NoClient
          /\ active_client = NoClient
          /\ Positions("STEP_STARTED") = {}
    /\ (NoPrompt /\ StreamEnded /\ ProcessRunStarted) =>
          /\ Len(events) >= 3
          /\ events[Len(events) - 1] = NoUserMessageLog
          /\ LastEvent.type = "RUN_FINISHED"
          /\ Cardinality({ i \in DOMAIN events : events[i] = NoUserMessageLog }) = 1
          /\ Positions("RUN_ERROR") = {}
          /\ Cardinality(Positions("RUN_STARTED")) = 1
          /\ \A i \in 2 .. Len(events) - 2 :
                /\ events[i].type \in EchoTypes
                /\ \E k \in DOMAIN request :
                      request[k].role = "user" /\ events[i].id = <<"msg", 0, k>>
          /\ \A k \in DOMAIN request :
                request[k].role = "user" =>
                    \E i \in 2 .. Len(events) - 2 :
                        events[i] = Event("TEXT_MESSAGE_START", <<"msg", 0, k>>, "user")

\* C14 witness: a run whose only message is a user message with empty
\* content has ended with RunFinished.
C14_Witness ==
    /\ StreamEnded
    /\ ProcessRunStarted
    /\ Len(request) = 1
    /\ request[1].role = "user"
    /\ NoPrompt
    /\ LastEvent.type = "RUN_FINISHED"

\* --------------------------------------------------------------------- echo
\* The echo loop of the run is over.
EchoDone ==
    /\ ProcessRunStarted
    /\ \/ pc = "echo" /\ echo_i > Len(request)
       \/ pc \notin {"idle", "generator", "process_run", "echo"}

\* Positions of the events that carry the id of the k-th inbound message.
EchoPositions(k) == { i \in DOMAIN events : events[i].id = <<"msg", 0, k>> }

Min(S) == CHOOSE x \in S : \A y \in S : x <= y

UserMessages == { k \in DOMAIN request : request[k].role = "user" }

\* C15: once the echo loop is over, every user message of the request has
\* its group of events right after RunStarted, the groups in request order
\* and ahead of every other event: Raw message_metadata exactly when the
\* message is hidden, TextMessageStart, TextMessageContent exactly when the
\* content is not empty, TextMessageEnd, all with the id of the message;
\* a message of another role has no event.
C15_EchoGroups ==
    EchoDone =>
        /\ \A k \in DOMAIN request \ UserMessages : EchoPositions(k) = {}
        /\ \A k \in UserMessages :
              LET msg  == request[k]
                  id   == <<"msg", 0, k>>
                  head == IF msg.hidden THEN << Event("RAW", id, "message_metadata") >> ELSE <<>>
                  body == IF msg.content # "" THEN << Event("TEXT_MESSAGE_CONTENT", id, msg.content) >> ELSE <<>>
                  group == head \o << Event("TEXT_MESSAGE_START", id, "user") >>
                                \o body \o << Event("TEXT_MESSAGE_END", id, "") >>
              IN  /\ EchoPositions(k) # {}
                  /\ LET first == Min(EchoPositions(k))
                     IN  /\ EchoPositions(k) = first .. (first + Len(group) - 1)
                         /\ SubSeq(events, first, first + Len(group) - 1) = group
        /\ \A k, l \in UserMessages :
              k < l => \A i \in EchoPositions(k), j \in EchoPositions(l) : i < j
        /\ \A i \in DOMAIN events :
              (i > 1 /\ events[i].id[1] # "msg") =>
                  \A k \in UserMessages : \A j \in EchoPositions(k) : j < i

\* C15 witness: a request of a hidden user message without content, an
\* assistant message and a visible user message with content was echoed,
\* and the step of the agent has started.
C15_Witness ==
    /\ Len(request) = 3
    /\ request[1].role = "user" /\ request[1].hidden /\ request[1].content = ""
    /\ request[2].role = "assistant"
    /\ request[3].role = "user" /\ ~request[3].hidden /\ request[3].content # ""
    /\ pc = "query"
    /\ LastEvent.type = "STEP_STARTED"

\* ------------------------------------------------------------ prerequisites
\* The prompt of the run begins with a phase command whose artifact is not
\* in the workspace.
MissingPrerequisite == _validate_prerequisites(_extract_user_message(PlainMessages(request))) # ""

\* C16: a run whose prompt begins with a phase command whose artifact is
\* absent never invokes the agent, and unless something else failed its
\* stream begins with RunStarted and ends with a RunError carrying the
\* remediation text of the command.
C16_PrerequisiteRunError ==
    /\ MissingPrerequisite => connects = <<>> /\ client = NoClient
    /\ (MissingPrerequisite /\ StreamEnded /\ LastEvent # Event("RUN_ERROR", None, "error")) =>
          /\ ProcessRunStarted
          /\ LastEvent = Event("RUN_ERROR", None,
                               _validate_prerequisites(_extract_user_message(PlainMessages(request))))

\* ----------------------------------------------------------------- tool use
\* The step translates a tool-use block.
ToolUseStep ==
    /\ pc = "blocks"
    /\ blocks # <<>>
    /\ Head(blocks).kind = "tool_use"
    /\ blocks' = Tail(blocks)

\* C17: the translation of a tool-use block appends ToolCallStart, with the
\* id of the block or a fresh one, followed by one ToolCallArgs with the
\* same id exactly when the block has a non-empty input; no ToolCallArgs is
\* in the stream other than right after the ToolCallStart of its id.
C17_ToolUseStartArgs ==
    /\ [][ ToolUseStep =>
              LET block == Head(blocks)
                  n     == Len(events)
                  new   == SubSeq(events', n + 1, Len(events'))
              IN  /\ SubSeq(events', 1, n) = events
                  /\ Len(new) = IF block.input THEN 2 ELSE 1
                  /\ new[1].type = "TOOL_CALL_START"
                  /\ new[1].id # None
                  /\ block.id # None => new[1].id = block.id
                  /\ block.input =>
                        new[2].type = "TOOL_CALL_ARGS" /\ new[2].id = new[1].id ]_vars
    /\ [](\A i \in Positions("TOOL_CALL_ARGS") :
              /\ i > 1
              /\ events[i - 1].type = "TOOL_CALL_START"
              /\ events[i - 1].id = events[i].id)

\* C17 witness: the run translated a tool-use block with input and one
\* without.
C17_Witness ==
    /\ pc = "receive"
    /\ Positions("TOOL_CALL_ARGS") # {}
    /\ \E j \in Positions("TOOL_CALL_START") :
          j = Len(events) \/ events[j + 1].type # "TOOL_CALL_ARGS"

\* ------------------------------------------------------------- continuation
\* The step builds the options of the client (entry of _run_claude_agent_sdk
\* to the creation of the client).
PrepareStep == pc = "sdk" /\ pc' = "connect"

\* The step is a connect attempt on the client first created.
FirstConnectStep == pc = "connect" /\ connects' # connects

\* C18: the options of a run ask to continue the conversation exactly when
\* _first_run is false at that point or IS_RESUME is true, and the first
\* connect attempt is made with these options; the first run of a session
\* without IS_RESUME does not ask to continue.
C18_ContinuationRequested ==
    /\ [][ PrepareStep =>
              (continue_conversation' <=> (~first_run \/ is_resume)) ]_vars
    /\ [][ FirstConnectStep =>
              /\ connects = <<>>
              /\ Len(connects') = 1
              /\ connects'[1].cont = continue_conversation ]_vars
    /\ []( (run = 1 /\ ~is_resume /\ connects # <<>>) => ~connects[1].cont )

\* C18 witness: without IS_RESUME, the second run of the session made its
\* first connect attempt asking to continue.
C18_Witness ==
    /\ run = 2
    /\ ~is_resume
    /\ connects # <<>>
    /\ connects[1].cont

\* C19: a second connect attempt follows only a first attempt that failed
\* with "no conversation found"; after any other failure of the first
\* attempt the run has made one attempt and ends with RunError.
C19_RetryOnlyNoConversation ==
    /\ Len(connects) >= 2 => connects[1].outcome = "no conversation found"
    /\ (StreamEnded /\ connects # <<>>
          /\ connects[1].outcome \notin {"ok", "no conversation found"}) =>
          /\ Len(connects) = 1
          /\ LastEvent.type = "RUN_ERROR"

\* The run connected a client and sent it the prompt.
Engaged == Positions("STEP_STARTED") # {} /\ failed # "query"

\* C20: the step that ends a run which engaged the agent leaves _first_run
\* false, whether the run ends with RunFinished or with RunError.
C20_FirstRunCleared ==
    [][ (pc # "done" /\ pc' = "done" /\ Engaged') => ~first_run' ]_vars

\* ------------------------------------------------------- writers of the flags
\* The step is a step of the run in flight: the run moves on, emits, or
\* consumes a message or a block.
RunProcessingStep ==
    /\ RunInFlight
    /\ pc' # pc \/ events' # events \/ received' # received \/ blocks' # blocks

\* C21 as stated: every step that changes _first_run or _turn_count is a step
\* of the run in flight.
C21_OnlyRunProcessingWrites ==
    [][ (first_run' # first_run \/ turn_count' # turn_count) => RunProcessingStep ]_vars

\* C21 amended: _turn_count is changed by steps of the run in flight only
\* and _first_run is set to false by them only; a step that sets _first_run
\* back to true is a workflow / repository change, which also marks the
\* adapter as not initialized and leaves the run in flight and _turn_count
\* alone; an interrupt changes neither.
C21_WritersOfFlags ==
    [][ /\ turn_count' # turn_count => RunProcessingStep
        /\ (first_run /\ ~first_run') => RunProcessingStep
        /\ (~first_run /\ first_run') =>
              /\ ~RunProcessingStep
              /\ ~adapter_initialized'
              /\ turn_count' = turn_count
        /\ InterruptStep => (first_run' = first_run /\ turn_count' = turn_count) ]_vars

\* C21 witness: after a run that completed with a turn count, a workflow or
\* repository change has set _first_run back to true.
C21_Witness ==
    /\ StreamEnded
    /\ failed = ""
    /\ LastEvent.type = "RUN_FINISHED"
    /\ Positions("STEP_FINISHED") # {}
    /\ turn_count > 0
    /\ first_run
    /\ ~adapter_initialized

\* ------------------------------------------------------------- live clients
\* OverlapSpec: the clients that are connected and not yet disconnected.
LiveClients ==
    { OverlapClient(r, runs[r].clients) :
        r \in { q \in OverlapIds :
                   runs[q].pc \in {"register", "receive", "finally", "disconnect"} } }

\* C22: at any time at most one client is live, and a registered client is
\* that live client.
C22_OneLiveClient ==
    /\ Cardinality(LiveClients) <= 1
    /\ active_client # NoClient => LiveClients = {active_client}

\* ------------------------------------------------- authentication not configured
\* C23: when neither an API key nor the Vertex mode is configured, the run
\* creates, connects, registers and disconnects no client and emits no
\* StepStarted; its stream is RunStarted, the echo events of the user
\* messages and exactly one RunError, which is the last event.
C23_AuthFailsFast ==
    failed = "auth" =>
        /\ ~NoPrompt
        /\ StreamEnded
        /\ connects = <<>>
        /\ disconnects = <<>>
        /\ client = NoClient
        /\ active_client = NoClient
        /\ Positions("STEP_STARTED") = {}
        /\ Positions("RUN_FINISHED") = {}
        /\ Positions("RUN_STARTED") = {1}
        /\ Positions("RUN_ERROR") = {Len(events)}
        /\ \A i \in 2 .. Len(events) - 1 :
              /\ events[i].type \in EchoTypes
              /\ \E k \in UserMessages : events[i].id = <<"msg", 0, k>>
        /\ \A k \in UserMessages :
              \E i \in 2 .. Len(events) - 1 :
                  events[i] = Event("TEXT_MESSAGE_START", <<"msg", 0, k>>, "user")

\* C23 witness: a run with a user prompt has ended on the authentication
\* check.
C23_Witness ==
    /\ failed = "auth"
    /\ StreamEnded
    /\ ~NoPrompt
    /\ LastEvent.type = "RUN_ERROR"

\* ------------------------------------------------------- observability sink
\* The calls of the observability sink.
ObsCalls == {"obs.initialize", "obs.start_turn", "obs.track_tool",
             "obs.end_turn", "obs.finalize"}

TranslatorPositions ==
    { i \in DOMAIN events :
        /\ events[i].type \notin {"RUN_STARTED", "RUN_FINISHED", "RUN_ERROR",
                                   "STEP_STARTED", "STEP_FINISHED"}
        /\ events[i].id[1] # "msg"
        /\ \E s \in Positions("STEP_STARTED") : s < i }

\* C25: a run emits at most one StepStarted and one StepFinished; the
\* StepStarted is the last event when the prompt is sent, and no event of the
\* agent's messages precedes it; when the message sequence is exhausted,
\* the StepFinished carries the step id of the StepStarted, follows every
\* translator event, however many there are, and is followed only by the
\* terminal event, which is RunFinished when nothing has failed.
C25_StepBracket ==
    /\ Cardinality(Positions("STEP_STARTED")) <= 1
    /\ Cardinality(Positions("STEP_FINISHED")) <= 1
    /\ pc = "query" => LastEvent.type = "STEP_STARTED"
    /\ pc \in {"query", "receive", "blocks"} =>
          /\ Cardinality(Positions("STEP_STARTED")) = 1
          /\ Positions("STEP_FINISHED") = {}
    /\ \A s \in Positions("STEP_STARTED") :
          /\ events[s].info = "processing_prompt"
          /\ \A i \in 1 .. s - 1 :
                \/ events[i].type \in {"RUN_STARTED", "RAW"}
                \/ events[i].id[1] = "msg"
    /\ \A f \in Positions("STEP_FINISHED") :
          /\ pc \in {"finally", "disconnect", "finalize", "done"}
          /\ \E s \in Positions("STEP_STARTED") :
                /\ s < f
                /\ events[f].id = events[s].id
                /\ events[f].info = events[s].info
                /\ \A i \in s + 1 .. f - 1 : i \in TranslatorPositions
          /\ \A i \in TranslatorPositions : i < f
          /\ \A i \in f + 1 .. Len(events) : i = f + 1 /\ IsTerminal(events[i])
          /\ (StreamEnded /\ failed = "") =>
                f = Len(events) - 1 /\ LastEvent.type = "RUN_FINISHED"

\* C25 witness: runs that ended in RunFinished with no message, and with two
\* messages, between StepStarted and StepFinished.
C25_Witness ==
    /\ StreamEnded
    /\ LastEvent.type = "RUN_FINISHED"
    /\ Positions("STEP_FINISHED") # {}
    /\ received = MaxAgentMsgs
    /\ Cardinality(TranslatorPositions) >= 2

\* C25 witness of the empty bracket: StepFinished right after StepStarted.
C25_WitnessEmpty ==
    /\ StreamEnded
    /\ LastEvent.type = "RUN_FINISHED"
    /\ \E f \in Positions("STEP_FINISHED") : events[f - 1].type = "STEP_STARTED"

\* ------------------------------------------------- window of the active handle
\* A step that registers a client, and a step that clears the registration.
RegisterStep == active_client = NoClient /\ active_client' # NoClient

ClearStep == active_client # NoClient /\ active_client' = NoClient

\* disconnect() has been called on client c.
DisconnectInvoked(c) == \E i \in DOMAIN disconnects : disconnects[i] = c

\* The registered client is the one the last connect() of the run connected,
\* and no message of the agent has been received.
RegisteredAfterConnect ==
    /\ connects # <<>>
    /\ connects[Len(connects)].outcome = "ok"
    /\ connects[Len(connects)].client = active_client'
    /\ received = 0
    /\ received' = 0

\* C28 (as claimed): the handle is registered only after a successful
\* connect and before the first message, and it is cleared only after
\* disconnect() has been invoked on the client.
C28_ClearedAfterDisconnect ==
    [][ /\ RegisterStep => RegisteredAfterConnect
        /\ ClearStep => DisconnectInvoked(active_client) ]_vars

\* C28 (amended): the handle is registered only after a successful connect
\* and before the first message; it is cleared when the cleanup of the run
\* begins, in the step that then invokes disconnect() on that client for the
\* first time, so no handle is registered while disconnect() is in progress
\* or after it.
C28_ClearedBeforeDisconnect ==
    /\ [][ /\ RegisterStep => RegisteredAfterConnect
           /\ ClearStep =>
                 /\ pc = "finally"
                 /\ pc' = "disconnect"
                 /\ ~DisconnectInvoked(active_client)
                 /\ disconnects' = Append(disconnects, active_client) ]_vars
    /\ [](pc \in {"disconnect", "finalize", "done"} => active_client = NoClient)

\* C28 witness: disconnect() is in progress on the client of a run that
\* received a message, and no handle is registered.
C28_Witness ==
    /\ pc = "disconnect"
    /\ received > 0
    /\ DisconnectInvoked(client)
    /\ active_client = NoClient

\* ---------------------------------------------------- spans across runs
\* C29: when a run has emitted its terminal event no message id is current,
\* and no TextMessageContent or TextMessageEnd of a run carries a message
\* id generated in an earlier run.
C29_NoSpanOutlivesRun ==
    /\ StreamEnded => current_message_id = None
    /\ \A i \in DOMAIN events :
          (events[i].type \in {"TEXT_MESSAGE_CONTENT", "TEXT_MESSAGE_END"}
             /\ events[i].id[1] = "uuid") => events[i].id[2] = run

\* ------------------------------------------------------ closing a text span
\* The events a step appends to the stream of the run.
NewEvents ==
    IF Len(events') > Len(events)
    THEN SubSeq(events', Len(events) + 1, Len(events'))
    ELSE <<>>

\* A step that emits the TextMessageEnd of an assistant span.
SpanEndStep ==
    \E i \in DOMAIN NewEvents :
        NewEvents[i].type = "TEXT_MESSAGE_END" /\ NewEvents[i].id[1] # "msg"

\* A step that ends the block loop of a structured message.
EndBlocksStep == pc = "blocks" /\ blocks = <<>> /\ pc' = "receive"

\* C30: a TextMessageEnd of an assistant span is emitted only at the end of
\* the block loop of a structured message, and there exactly when the
\* message had a content block and a message id is current: it is the one
\* event of the step, it carries the current id, and the id is cleared.
\* Otherwise the end of the block loop leaves the stream and the id alone,
\* and a current id is cleared by no other step.
C30_SpanClosedAfterBlocks ==
    [][ /\ SpanEndStep => EndBlocksStep
        /\ (current_message_id # None /\ current_message_id' = None) => EndBlocksStep
        /\ EndBlocksStep =>
              IF has_content /\ current_message_id # None
              THEN /\ events' = Append(events, Event("TEXT_MESSAGE_END", current_message_id, ""))
                   /\ current_message_id' = None
              ELSE UNCHANGED << events, current_message_id >> ]_vars

\* C30 witness: a structured message with a content block has closed the
\* span a stream event opened.
C30_Witness ==
    /\ pc = "receive"
    /\ has_content
    /\ received = 2
    /\ current_message_id = None
    /\ Len(events) >= 2
    /\ LastEvent.type = "TEXT_MESSAGE_END"
    /\ LastEvent.id[1] = "uuid"

\* ------------------------------------------------------ map_to_vertex_model
\* The model names of the frontend dropdown.
FrontendModels ==
    { PyStr(claude_sonnet_4_5), PyStr(claude_opus_4_6),
      PyStr(claude_opus_4_5), PyStr(claude_haiku_4_5) }

Digits == { "0", "1", "2", "3", "4", "5", "6", "7", "8", "9" }

\* r is the str name "@" version, with no other "@", and the version is
\* "default" or eight digits.
IsVertexIdOf(r, name) ==
    /\ r.type = "str"
    /\ \E i \in DOMAIN r.value :
          /\ { j \in DOMAIN r.value : r.value[j] = "@" } = { i }
          /\ SubSeq(r.value, 1, i - 1) = name.value
          /\ LET version == SubSeq(r.value, i + 1, Len(r.value))
             IN  \/ version = << "d", "e", "f", "a", "u", "l", "t" >>
                 \/ /\ Len(version) = 8
                    /\ \A j \in DOMAIN version : version[j] \in Digits

\* C26: map_to_vertex_model maps each frontend model name to that name,
\* "@" and a version that is "default" or an 8-digit date, and returns every
\* other argument unchanged; applying it to its own result returns that
\* result.
C26_MapToVertexModel ==
    /\ Len(vertex_models) >= 1 =>
          IF llm_model \in FrontendModels
          THEN IsVertexIdOf(vertex_models[1], llm_model)
          ELSE vertex_models[1] = llm_model
    /\ Len(vertex_models) = 2 => vertex_models[2] = vertex_models[1]

\* C26 witness: claude-opus-4-6 has been mapped, and the result mapped again.
C26_Witness ==
    /\ llm_model = PyStr(claude_opus_4_6)
    /\ Len(vertex_models) = 2
    /\ vertex_models[1] # llm_model

\* C35: the next run that starts after a workflow change, a repository add
\* or a repository remove has completed runs adapter initialization again
\* and, IS_RESUME absent, starts the agent without continuation, also when
\* the request arrived while another run was initializing or in flight.
C35_ResetTakesEffect ==
    \A r \in OverlapIds :
        runs[r].after_reset =>
            /\ runs[r].pc \notin {"idle", "generator"} => runs[r].initialized
            /\ (runs[r].pc = "connect" /\ ~is_resume) => ~runs[r].cont

\* C37: interrupt() never signals a client whose disconnect has begun: the
\* registered handle is the client of a run that has not entered its
\* cleanup, whenever interrupt() finds it, and no run has been signalled
\* after its disconnect began.
C37_InterruptBeforeCleanup ==
    /\ \A r \in OverlapIds : ~runs[r].late
    /\ active_client # NoClient =>
          LET r == OverlapOwner(active_client)
          IN  /\ runs[r].pc \in {"receive", "finally"}
              /\ active_client = OverlapClient(r, runs[r].clients)

\* C37 witness: interrupt() signalled the client of a run while the other
\* run was in flight with a connected client of its own.
C37_Witness ==
    \E r, q \in OverlapIds :
        /\ r # q
        /\ runs[r].signalled
        /\ runs[r].pc \in {"receive", "finally"}
        /\ runs[q].pc \in {"register", "receive", "finally"}

\* C36: the retry with continuation disabled happens only in runs in which
\* continuation had been requested; when the first connect attempt was made
\* without continuation, the failure is not retried and no fallback Raw
\* event is emitted.
C36_RetryOnlyWhenContinuing ==
    (connects # <<>> /\ ~connects[1].cont) =>
        /\ Len(connects) = 1
        /\ \A i \in DOMAIN events :
               ~(events[i].type = "RAW"
                    /\ events[i].info = "Could not continue conversation, starting fresh...")

\* C38: after any sequence of runs the recorded status code reflects the
\* most recent run: last_exit_code is 0 if and only if the most recently
\* completed run ended with RunFinished, 2 if it ended with a prerequisite
\* RunError (the one that carries the remediation text) and 1 if it ended
\* with any other RunError.
C38_ExitCodeOfLastRun ==
    (StreamEnded /\ events # <<>>) =>
        /\ last_exit_code = 0 <=> LastEvent.type = "RUN_FINISHED"
        /\ (LastEvent.type = "RUN_ERROR" /\ LastEvent.info # "error") => last_exit_code = 2
        /\ (LastEvent.type = "RUN_ERROR" /\ LastEvent.info = "error") => last_exit_code = 1

\* C39: the mapping the adapter applies when it configures a Vertex run
\* agrees with auth.map_to_vertex_model on every input; every frontend model
\* name is configured as a versioned Vertex id containing "@".
C39_AdapterMappingAgrees ==
    (configured_model # NotConverted /\ vertex_run /\ Truthy(llm_model)) =>
        /\ configured_model = map_to_vertex_model(llm_model)
        /\ llm_model \in FrontendModels =>
               \E i \in DOMAIN configured_model.value : configured_model.value[i] = "@"

\* ------------------------------------------------------- to_run_agent_input
\* The field holds a value: it is neither None nor the empty string.
IsSet(v) == v # PyNone /\ v # PyStr(<<>>)

\* C27: in the request to_run_agent_input produces, thread_id and
\* parent_run_id are the camelCase field when it is set and the snake_case
\* field otherwise; run_id likewise, and a generated id when neither is
\* set, so it is never empty; context is the given list or else the empty
\* list; state, tools and forwarded_props are the given value or else
\* empty; messages are the given messages in their order.
C27_CanonicalRequest ==
    run_agent_input.type = "RunAgentInput" =>
        LET out  == run_agent_input.value
            self == runner_input
        IN  /\ out.thread_id = IF IsSet(self.threadId) THEN self.threadId ELSE self.thread_id
            /\ out.parent_run_id = IF IsSet(self.parentRunId) THEN self.parentRunId
                                   ELSE self.parent_run_id
            /\ IF IsSet(self.runId) THEN out.run_id = self.runId
               ELSE IF IsSet(self.run_id) THEN out.run_id = self.run_id
               ELSE out.run_id \in GeneratedRunIds
            /\ out.run_id.type = "str"
            /\ out.run_id.value # <<>>
            /\ out.context = IF self.context.type = "list" THEN self.context ELSE PyList(<<>>)
            /\ out.state = IF self.state = PyNone THEN PyDict(<<>>) ELSE self.state
            /\ out.tools = IF self.tools = PyNone THEN PyList(<<>>) ELSE self.tools
            /\ out.forwarded_props = IF self.forwardedProps = PyNone THEN PyDict(<<>>)
                                     ELSE self.forwardedProps
            /\ out.messages = self.messages

\* C27 witness: a request with both spellings of thread_id, no run id, a
\* dict as context and two messages has been converted.
C27_Witness ==
    /\ run_agent_input.type = "RunAgentInput"
    /\ IsSet(runner_input.threadId)
    /\ IsSet(runner_input.thread_id)
    /\ ~IsSet(runner_input.runId)
    /\ ~IsSet(runner_input.run_id)
    /\ runner_input.context.type = "dict"
    /\ runner_input.messages = PyList(<< "m2", "m1" >>)

\* ---------------------------------------------------------- tool results
\* A step of the block loop on a tool-result block.
ToolResultStep ==
    /\ pc = "blocks"
    /\ blocks # <<>>
    /\ Head(blocks).kind = "tool_result"
    /\ blocks' = Tail(blocks)

\* C31: the step on a tool-result block emits one ToolCallEnd when the block
\* carries a tool_use_id and nothing otherwise; the event carries that id
\* and its result is in the error field exactly when the block is marked as
\* an error, in the result field otherwise.  No other step emits a
\* ToolCallEnd.
C31_ToolResultEnd ==
    [][ /\ ToolResultStep =>
              NewEvents =
                  IF Head(blocks).id # None
                  THEN << Event("TOOL_CALL_END", Head(blocks).id,
                                IF Head(blocks).is_error THEN "error" ELSE "result") >>
                  ELSE <<>>
        /\ (\E i \in DOMAIN NewEvents : NewEvents[i].type = "TOOL_CALL_END")
              => ToolResultStep ]_vars

\* C31 witness: the last event is the ToolCallEnd of a tool-result block
\* marked as an error.
C31_Witness ==
    /\ pc = "blocks"
    /\ blocks = <<>>
    /\ events # <<>>
    /\ LastEvent.type = "TOOL_CALL_END"
    /\ LastEvent.id \in ToolIds
    /\ LastEvent.info = "error"

\* ------------------------------------------------------------- step pairing
\* C32: when the stream of a run has ended, every StepStarted is followed by
\* exactly one StepFinished with its step id.
C32_StepFinishedFollows ==
    StreamEnded =>
        \A s \in Positions("STEP_STARTED") :
            Cardinality({ f \in Positions("STEP_FINISHED") :
                            f > s /\ events[f].id = events[s].id }) = 1

\* The user-role messages given to _extract_user_message, and the text a
\* message exposes: its string content, the text of the first block of its
\* list content exposing text, nothing ("") when it exposes none.
UserPositions == { k \in DOMAIN input_messages : input_messages[k].role = "user" }

LastUser == CHOOSE k \in UserPositions : \A j \in UserPositions : j <= k

TextOf(m) ==
    IF m.content.type = "str" THEN m.content.text
    ELSE IF m.content.type = "list" /\ FirstTextBlock(m.content.blocks, 1) # 0
         THEN m.content.blocks[FirstTextBlock(m.content.blocks, 1)].text
    ELSE ""

\* C33: the prompt is the text of the last user-role message of the request
\* (its plain-string content, or the first content block exposing text);
\* whenever a later user-role message exists, the text of an earlier
\* user-role message is never used as the prompt.
C33_PromptIsLastUserText ==
    (user_message.done /\ UserPositions # {}) =>
        user_message.text = TextOf(input_messages[LastUser])

\* How often a path occurs in a list of directories.
Occurrences(p, dirs) == Cardinality({ i \in DOMAIN dirs : dirs[i] = p })

MultiRepoMode == ~paths_env.workflow_url /\ paths_env.repos # <<>>

\* The main repository of the configuration: MAIN_REPO_NAME, else the repo at
\* MAIN_REPO_INDEX, index 0 when it is missing, non-numeric or out of range.
MainRepo ==
    IF paths_env.main_name # "" THEN paths_env.main_name
    ELSE IF /\ paths_env.main_index.kind = "int"
            /\ paths_env.main_index.n \in 0 .. Len(paths_env.repos) - 1
         THEN paths_env.repos[paths_env.main_index.n + 1]
    ELSE paths_env.repos[1]

OtherRepoPaths ==
    { <<"repos", paths_env.repos[i]>> : i \in DOMAIN paths_env.repos } \ { <<"repos", MainRepo>> }

\* C34: for every repository configuration the resolver returns a working
\* directory and duplicate-free additional directories; in multi-repo mode
\* the working directory is repos/<main repo>, it is not among the additional
\* directories, and these hold every other named repo path, artifacts and
\* file-uploads, each exactly once.
C34_ResolvedPaths ==
    resolved_paths.done =>
        /\ \A i \in DOMAIN resolved_paths.add_dirs :
               Occurrences(resolved_paths.add_dirs[i], resolved_paths.add_dirs) = 1
        /\ MultiRepoMode =>
               /\ resolved_paths.cwd = <<"repos", MainRepo>>
               /\ ~InList(resolved_paths.cwd, resolved_paths.add_dirs)
               /\ \A p \in OtherRepoPaths \cup { <<"artifacts">>, <<"file-uploads">> } :
                      Occurrences(p, resolved_paths.add_dirs) = 1

====
